---- MODULE Spec2Model ----
(***************************************************************************)
(* PGN generation of chess-game-spider (src/generate_pgn.py).              *)
(*                                                                         *)
(* Text is modelled as Python models it: a string is a sequence of         *)
(* one-character strings, so splitting, joining, stripping, parsing and    *)
(* formatting are computed character by character.  A JSON value is a      *)
(* tagged record; a JSON object keeps its members in document order as a   *)
(* sequence of <<key, value>> pairs.                                       *)
(***************************************************************************)
EXTENDS Integers, Sequences, FiniteSets, TLC

VARIABLES
    info_file,        \* tournament/info.json: a file state
    round_files,      \* rounds/round_<N>_index.json read so far: N -> file state
    game_files,       \* games/round_<N>_game_<M>.json read so far: <<N,M>> -> file state
    old_output,       \* content of pgn_format/tournament.pgn before the run
    output_file,      \* content of pgn_format/tournament.pgn now
    pc,               \* position of the run
    tournament_info,  \* generate_tournament_pgn: loaded tournament info
    total_rounds,     \* generate_tournament_pgn: len(rounds)
    round_num,        \* generate_tournament_pgn: loop variable
    all_pgn_content,  \* generate_tournament_pgn: list of round blocks
    success_count,    \* generate_tournament_pgn: rounds included
    round_data,       \* generate_round_pgn: loaded round index
    total_games,      \* generate_round_pgn: len(pairings)
    game_num,         \* generate_round_pgn: loop variable
    pgn_content,      \* generate_round_pgn: list of game records
    game_pgn,         \* outcome of the last generate_game_pgn call
    round_pgn,        \* outcome of the last generate_round_pgn call
    result,           \* what generate_tournament_pgn returned
    rounds_log,       \* history: round numbers passed to generate_round_pgn
    games_log,        \* history: <<round, game>> passed to generate_game_pgn
    writes,           \* history: number of times the output file was opened for writing
    write_error,      \* history: "none", or which of open and write raised
    fmt_call,         \* a formatting function called on its own: its name and argument
    fmt_ret,          \* the outcome of that call
    json_error_class, \* the class response.json() raises in the installed requests
    retries,          \* _make_request: the retry count
    attempt,          \* _make_request: loop variable, from 0
    attempts_log,     \* history: what each attempt met and the sleep that followed it
    request_ret       \* what _make_request returned

\* The variables of _make_request.
request_vars == <<json_error_class, retries, attempt, attempts_log, request_ret>>

vars == <<info_file, round_files, game_files, old_output, output_file, pc,
          tournament_info, total_rounds, round_num, all_pgn_content,
          success_count, round_data, total_games, game_num, pgn_content,
          game_pgn, round_pgn, result, rounds_log, games_log, writes, write_error,
          fmt_call, fmt_ret, request_vars>>

-----------------------------------------------------------------------------
(* Bounds of the model.                                                    *)

MaxRounds == 2
MaxGames == 2

-----------------------------------------------------------------------------
(* String literals of the program, as character sequences.                 *)

NL == "\n"
S_Unknown == <<"U", "n", "k", "n", "o", "w", "n">>
S_UnknownTournament == <<"U", "n", "k", "n", "o", "w", "n", " ", "T", "o", "u", "r", "n", "a", "m", "e", "n", "t">>
S_UnknownDate == <<"?", "?", "?", "?", ".", "?", "?", ".", "?", "?">>
S_DefaultTC == <<"2", "5", "0", "0", "+", "1", "0">>
S_None == <<"N", "o", "n", "e">>
S_True == <<"T", "r", "u", "e">>
S_False == <<"F", "a", "l", "s", "e">>
S_ClkOpen == <<"{", "[", "%", "c", "l", "k", " ">>
S_ClkClose == <<"]", "}">>
S_Event == <<"E", "v", "e", "n", "t">>
S_Site == <<"S", "i", "t", "e">>
S_Date == <<"D", "a", "t", "e">>
S_Round == <<"R", "o", "u", "n", "d">>
S_White == <<"W", "h", "i", "t", "e">>
S_Black == <<"B", "l", "a", "c", "k">>
S_Result == <<"R", "e", "s", "u", "l", "t">>
S_TimeControl == <<"T", "i", "m", "e", "C", "o", "n", "t", "r", "o", "l">>
S_WhiteFideId == <<"W", "h", "i", "t", "e", "F", "i", "d", "e", "I", "d">>
S_BlackFideId == <<"B", "l", "a", "c", "k", "F", "i", "d", "e", "I", "d">>
S_EventDate == <<"E", "v", "e", "n", "t", "D", "a", "t", "e">>
S_EventType == <<"E", "v", "e", "n", "t", "T", "y", "p", "e">>
S_Source == <<"S", "o", "u", "r", "c", "e">>
S_tournament == <<"t", "o", "u", "r", "n", "a", "m", "e", "n", "t">>
S_LiveChessCloud == <<"L", "i", "v", "e", "C", "h", "e", "s", "s", "C", "l", "o", "u", "d">>
S_Star == <<"*">>

K_name == <<"n", "a", "m", "e">>
K_location == <<"l", "o", "c", "a", "t", "i", "o", "n">>
K_country == <<"c", "o", "u", "n", "t", "r", "y">>
K_timecontrol == <<"t", "i", "m", "e", "c", "o", "n", "t", "r", "o", "l">>
K_rounds == <<"r", "o", "u", "n", "d", "s">>
K_date == <<"d", "a", "t", "e">>
K_pairings == <<"p", "a", "i", "r", "i", "n", "g", "s">>
K_white == <<"w", "h", "i", "t", "e">>
K_black == <<"b", "l", "a", "c", "k">>
K_result == <<"r", "e", "s", "u", "l", "t">>
K_fname == <<"f", "n", "a", "m", "e">>
K_mname == <<"m", "n", "a", "m", "e">>
K_lname == <<"l", "n", "a", "m", "e">>
K_fideid == <<"f", "i", "d", "e", "i", "d">>
K_moves == <<"m", "o", "v", "e", "s">>

-----------------------------------------------------------------------------
(* Python's str operations.                                                *)

Digits == <<"0", "1", "2", "3", "4", "5", "6", "7", "8", "9">>

IsDigit(c) == \E i \in 1..10 : Digits[i] = c

DigitVal(c) == (CHOOSE i \in 1..10 : Digits[i] = c) - 1

IsSpace(c) == c \in {" ", "\n", "\t", "\r"}

\* c in s
Contains(s, c) == \E i \in 1..Len(s) : s[i] = c

\* s.find(c) + 1 for a c that s holds
IndexOf(s, c) == CHOOSE i \in 1..Len(s) : s[i] = c /\ \A j \in 1..(i - 1) : s[j] # c

\* s.replace(c, '')
RemoveChar(s, c) == SelectSeq(s, LAMBDA x : x # c)

\* s.split(c)
RECURSIVE SplitOn(_, _)
SplitOn(s, c) ==
    IF ~Contains(s, c) THEN <<s>>
    ELSE LET i == IndexOf(s, c)
         IN  <<SubSeq(s, 1, i - 1)>> \o SplitOn(SubSeq(s, i + 1, Len(s)), c)

\* s.split(c, 1) for an s that holds c
SplitFirst(s, c) ==
    LET i == IndexOf(s, c)
    IN  <<SubSeq(s, 1, i - 1), SubSeq(s, i + 1, Len(s))>>

RECURSIVE LStrip(_)
LStrip(s) == IF s # <<>> /\ IsSpace(Head(s)) THEN LStrip(Tail(s)) ELSE s

RECURSIVE RStrip(_)
RStrip(s) ==
    IF s # <<>> /\ IsSpace(s[Len(s)]) THEN RStrip(SubSeq(s, 1, Len(s) - 1)) ELSE s

\* s.strip()
Strip(s) == RStrip(LStrip(s))

\* s.split(): the runs of non-whitespace characters
RECURSIVE SplitWS(_)
SplitWS(s) ==
    LET t == LStrip(s)
    IN  IF t = <<>> THEN <<>>
        ELSE IF \E i \in 1..Len(t) : IsSpace(t[i])
             THEN LET i == CHOOSE i \in 1..Len(t) :
                               IsSpace(t[i]) /\ \A j \in 1..(i - 1) : ~IsSpace(t[j])
                  IN  <<SubSeq(t, 1, i - 1)>> \o SplitWS(SubSeq(t, i + 1, Len(t)))
             ELSE <<t>>

\* sep.join(parts)
RECURSIVE Join(_, _)
Join(parts, sep) ==
    IF parts = <<>> THEN <<>>
    ELSE IF Len(parts) = 1 THEN parts[1]
    ELSE parts[1] \o sep \o Join(Tail(parts), sep)

\* s.isdigit() (ASCII)
IsDigitStr(s) == s # <<>> /\ \A i \in 1..Len(s) : IsDigit(s[i])

RECURSIVE NatToStr(_)
NatToStr(n) ==
    IF n < 10 THEN <<Digits[n + 1]>>
    ELSE NatToStr(n \div 10) \o <<Digits[(n % 10) + 1]>>

\* str(n) for an int n
IntToStr(n) == IF n < 0 THEN <<"-">> \o NatToStr(-n) ELSE NatToStr(n)

\* f"{n:02d}"
Pad2(n) == LET s == IntToStr(n) IN IF Len(s) >= 2 THEN s ELSE <<"0">> \o s

RECURSIVE DigitsVal(_)
DigitsVal(s) ==
    IF s = <<>> THEN 0 ELSE DigitsVal(SubSeq(s, 1, Len(s) - 1)) * 10 + DigitVal(s[Len(s)])

\* The outcome of a call: a value, or an exception escaping it.
Ok(v) == [k |-> "ok", v |-> v]
Raise == [k |-> "raise", v |-> <<>>]
RetNone == [k |-> "none", v |-> <<>>]

\* No formatting function is called on its own.
NoCall == [fn |-> "none", arg |-> <<>>]

\* No _make_request call is part of the run.
RequestIdle ==
    /\ json_error_class = "none"
    /\ retries = 0
    /\ attempt = 0
    /\ attempts_log = <<>>
    /\ request_ret = RetNone

\* int(s) for a str s: surrounding whitespace and one sign are accepted, and
\* single underscores between digits; anything else is a ValueError.
ParseInt(s) ==
    LET t == Strip(s)
        signed == t # <<>> /\ t[1] \in {"+", "-"}
        body == IF signed THEN Tail(t) ELSE t
        wellFormed ==
            /\ body # <<>>
            /\ \A i \in 1..Len(body) : IsDigit(body[i]) \/ body[i] = "_"
            /\ IsDigit(body[1]) /\ IsDigit(body[Len(body)])
            /\ \A i \in 1..(Len(body) - 1) : ~(body[i] = "_" /\ body[i + 1] = "_")
        n == DigitsVal(RemoveChar(body, "_"))
    IN  IF ~wellFormed THEN Raise
        ELSE Ok(IF signed /\ t[1] = "-" THEN -n ELSE n)

-----------------------------------------------------------------------------
(* JSON documents as json.load returns them.                               *)

JNull == [t |-> "null"]
JBool(b) == [t |-> "bool", b |-> b]
JInt(n) == [t |-> "int", n |-> n]
JStr(s) == [t |-> "str", s |-> s]
JList(l) == [t |-> "list", l |-> l]
JObj(d) == [t |-> "dict", d |-> d]

\* bool(v)
Truthy(v) ==
    CASE v.t = "null" -> FALSE
      [] v.t = "bool" -> v.b
      [] v.t = "int" -> v.n # 0
      [] v.t = "str" -> v.s # <<>>
      [] v.t = "list" -> v.l # <<>>
      [] v.t = "dict" -> v.d # <<>>

HasKey(v, key) == \E i \in 1..Len(v.d) : v.d[i][1] = key

\* v.get(key, default) for a dict v
Get(v, key, default) ==
    IF HasKey(v, key)
    THEN v.d[CHOOSE i \in 1..Len(v.d) : v.d[i][1] = key][2]
    ELSE default

\* len(v) is defined for str, list and dict
HasLen(v) == v.t \in {"str", "list", "dict"}

PyLen(v) ==
    CASE v.t = "str" -> Len(v.s)
      [] v.t = "list" -> Len(v.l)
      [] v.t = "dict" -> Len(v.d)

\* c in v, for a one-character str c: TypeError on None, bool and int
PyIn(c, v) ==
    CASE v.t = "str" -> Contains(v.s, c)
      [] v.t = "list" -> \E i \in 1..Len(v.l) : v.l[i].t = "str" /\ v.l[i].s = <<c>>
      [] v.t = "dict" -> HasKey(v, <<c>>)

\* repr(v) and str(v); a str is taken to hold no quote, backslash or control
\* character, so that its repr is the text between single quotes.
RECURSIVE PyRepr(_)
PyRepr(v) ==
    CASE v.t = "null" -> S_None
      [] v.t = "bool" -> IF v.b THEN S_True ELSE S_False
      [] v.t = "int" -> IntToStr(v.n)
      [] v.t = "str" -> <<"'">> \o v.s \o <<"'">>
      [] v.t = "list" ->
            <<"[">> \o Join([i \in 1..Len(v.l) |-> PyRepr(v.l[i])], <<",", " ">>) \o <<"]">>
      [] v.t = "dict" ->
            <<"{">>
            \o Join([i \in 1..Len(v.d) |->
                        <<"'">> \o v.d[i][1] \o <<"'", ":", " ">> \o PyRepr(v.d[i][2])],
                    <<",", " ">>)
            \o <<"}">>

PyStr(v) == IF v.t = "str" THEN v.s ELSE PyRepr(v)

-----------------------------------------------------------------------------
(* Files of the data directory.                                            *)

Absent == [k |-> "absent"]
Malformed == [k |-> "malformed"]
JsonFile(v) == [k |-> "json", v |-> v]
Unread == [k |-> "unread"]

\* json.load of an existing file; None when the file is absent, or when open or
\* json.load raised (the except branch logs and falls through to return None)
LoadJson(file) == IF file.k = "json" THEN file.v ELSE JNull

\* A loader that falls back to a one-round tournament when there is no document.
load_tournament_info_Default(file) ==
    IF file.k = "json" THEN file.v
    ELSE JObj(<< <<K_rounds, JList(<<JObj(<<>>)>>)>> >>)

load_tournament_info(file) == LoadJson(file)

load_round_data(file) == LoadJson(file)

load_game_data(file) == LoadJson(file)

-----------------------------------------------------------------------------
(* PGNGenerator's formatting functions.                                    *)

\* Only the last name is read, the other parts are taken as empty.
NamePart_LastOnly(player_data, key) ==
    IF key = K_lname /\ Truthy(Get(player_data, key, JStr(<<>>)))
    THEN Get(player_data, key, JStr(<<>>))
    ELSE JStr(<<>>)

\* name = player_data.get(key, '') or ''
NamePart(player_data, key) ==
    LET raw == Get(player_data, key, JStr(<<>>))
    IN  IF Truthy(raw) THEN raw ELSE JStr(<<>>)

\* get_player_name: AttributeError when player_data has no .get, or when a
\* truthy name part has no .strip
get_player_name(player_data) ==
    IF player_data.t # "dict" THEN Raise
    ELSE
    LET fname == NamePart(player_data, K_fname)
        mname == NamePart(player_data, K_mname)
        lname == NamePart(player_data, K_lname)
    IN  IF fname.t # "str" \/ mname.t # "str" \/ lname.t # "str" THEN Raise
        ELSE
        LET name_parts ==
                (IF Strip(fname.s) # <<>> THEN <<Strip(fname.s)>> ELSE <<>>)
                \o (IF Strip(mname.s) # <<>> THEN <<Strip(mname.s)>> ELSE <<>>)
                \o (IF Strip(lname.s) # <<>> THEN <<Strip(lname.s)>> ELSE <<>>)
        IN  Ok(IF name_parts # <<>> THEN Join(name_parts, <<" ">>) ELSE S_Unknown)

\* The hours wrapped at a day.
Hours_Wrapped(seconds) == (seconds \div 3600) % 24

\* Line 103: h = seconds // 3600
Hours(seconds) == seconds \div 3600

\* format_time_chessbase, for a str time_str
format_time_chessbase(time_str) ==
    LET main_time == IF Contains(time_str, "+") THEN SplitOn(time_str, "+")[1]
                     ELSE time_str
        parsed == ParseInt(main_time)
    IN  IF parsed.k # "ok" THEN <<>>
        ELSE
        LET seconds == parsed.v
            h == Hours(seconds)
            m == (seconds % 3600) \div 60
            s == seconds % 60
        IN  S_ClkOpen \o Pad2(h) \o <<":">> \o Pad2(m) \o <<":">> \o Pad2(s) \o S_ClkClose

\* Every token emitted as it is, without a clock tag.
FormatMove_Verbatim(move) == PyStr(move)

\* One move token as the White and the Black branch of format_moves_with_time
\* render it.
FormatMove(move) ==
    IF move.t = "str" /\ Contains(move.s, " ")
    THEN LET parts == SplitFirst(move.s, " ")
         IN  parts[1] \o <<" ">> \o format_time_chessbase(parts[2])
    ELSE PyStr(move)

\* The move number raised once per token instead of once per pair.
NextMoveNumber_PerPly(move_number) == move_number + 2

\* Line 159: move_number += 1, once per turn of the loop
NextMoveNumber(move_number) == move_number + 1

\* The while loop of format_moves_with_time from index i (1-based) on.
RECURSIVE MoveLines(_, _, _)
MoveLines(moves_list, i, move_number) ==
    IF i > Len(moves_list) THEN <<>>
    ELSE
    LET white_part == IntToStr(move_number) \o <<".">> \o FormatMove(moves_list[i])
        move_line == IF i + 1 <= Len(moves_list)
                     THEN white_part \o <<" ">> \o FormatMove(moves_list[i + 1])
                     ELSE white_part
    IN  <<move_line>> \o MoveLines(moves_list, i + 2, NextMoveNumber(move_number))

\* A string of moves taken for one token.
MovesList_Whole(moves_data) ==
    IF moves_data.t = "list" THEN moves_data.l ELSE <<moves_data>>

\* Lines 117-120: a list is used as it is, a str is split on whitespace.
MovesList(moves_data) ==
    IF moves_data.t = "list" THEN moves_data.l
    ELSE [i \in 1..Len(SplitWS(moves_data.s)) |-> JStr(SplitWS(moves_data.s)[i])]

format_moves_with_time(moves_data) ==
    IF ~Truthy(moves_data) THEN <<>>
    ELSE IF moves_data.t \notin {"list", "str"} THEN PyStr(moves_data)
    ELSE
    LET moves_list == MovesList(moves_data)
    IN  IF moves_list = <<>> THEN <<>>
        ELSE Join(MoveLines(moves_list, 1, 1), <<NL>>)

\* Lines 191-195 of format_time_control, on the str the variable holds there.
TimeControlFallThrough(timecontrol_str) ==
    IF Contains(timecontrol_str, "+") /\ IsDigitStr(RemoveChar(timecontrol_str, "+"))
    THEN timecontrol_str
    ELSE S_DefaultTC

\* The minutes taken for seconds.
MinutesToSeconds_Same(minutes) == minutes

\* Lines 183 and 187: minutes*60
MinutesToSeconds(minutes) == minutes * 60

\* format_time_control of whatever tournament_info.get("timecontrol", "Unknown")
\* gave.  The bare except swallows what the try block raises; the membership
\* test after it is outside the try block.
format_time_control(tc) ==
    IF ~Truthy(tc) \/ (tc.t = "str" /\ tc.s = S_Unknown) THEN Ok(S_DefaultTC)
    ELSE IF tc.t \in {"int", "bool"} THEN Raise
    ELSE IF tc.t \in {"list", "dict"}
         THEN IF PyIn("+", tc) THEN Raise ELSE Ok(S_DefaultTC)
    ELSE
    LET s0 == tc.s
    IN  IF Contains(s0, "m") /\ Contains(s0, "s")
        THEN LET s1 == RemoveChar(s0, " ")
             IN  IF Contains(s1, "+")
                 THEN LET parts == SplitOn(s1, "+")
                      IN  IF Len(parts) # 2 THEN Ok(TimeControlFallThrough(s1))
                          ELSE
                          LET minutes == ParseInt(RemoveChar(parts[1], "m"))
                              increment == ParseInt(RemoveChar(parts[2], "s"))
                          IN  IF minutes.k # "ok" \/ increment.k # "ok"
                              THEN Ok(TimeControlFallThrough(s1))
                              ELSE Ok(IntToStr(MinutesToSeconds(minutes.v)) \o <<"+">>
                                      \o IntToStr(increment.v))
                 ELSE LET minutes == ParseInt(RemoveChar(s1, "m"))
                      IN  IF minutes.k # "ok" THEN Ok(TimeControlFallThrough(s1))
                          ELSE Ok(IntToStr(MinutesToSeconds(minutes.v)))
        ELSE Ok(TimeControlFallThrough(s0))

\* f'[Tag "value"]'
HeaderLine(tag, value) == <<"[">> \o tag \o <<" ", "\"">> \o value \o <<"\"", "]">>

\* The FideId line emitted whatever the fideid is.
FideIdHeader_Always(tag, fideid) == HeaderLine(tag, PyStr(fideid))

\* Lines 248-249: f'[WhiteFideId "{white_fideid}"]' if white_fideid else ''
FideIdHeader(tag, fideid) ==
    IF Truthy(fideid) THEN HeaderLine(tag, PyStr(fideid)) ELSE <<>>

\* Line 256: the empty strings are filtered out of the header list.
FilterHeaders(headers) == SelectSeq(headers, LAMBDA header : header # <<>>)

\* The record without the space between the moves and the result.
CombinePgn_NoSpace(pgn_headers, formatted_moves, result_) ==
    Join(pgn_headers, <<NL>>) \o <<NL, NL>> \o formatted_moves
    \o result_ \o <<NL, NL>>

\* Line 263: '\n'.join(pgn_headers) + '\n\n' + formatted_moves + ' ' + result + '\n\n'
\* for a str result
CombinePgn(pgn_headers, formatted_moves, result_) ==
    Join(pgn_headers, <<NL>>) \o <<NL, NL>> \o formatted_moves
    \o <<" ">> \o result_ \o <<NL, NL>>

\* generate_game_pgn.  game_file is the state of
\* games/round_<round_number>_game_<game_number>.json; game_number >= 1.
generate_game_pgn(round_number, game_number, tournament_info_, round_data_, game_file) ==
    LET game_data == load_game_data(game_file)
    IN
    IF ~Truthy(game_data) THEN RetNone
    ELSE IF round_data_.t # "dict" THEN Raise
    ELSE
    LET pairings == Get(round_data_, K_pairings, JList(<<>>))
    IN
    IF ~HasLen(pairings) THEN Raise
    ELSE IF game_number > PyLen(pairings) THEN RetNone
    ELSE IF pairings.t # "list" THEN Raise
    ELSE
    LET pairing == pairings.l[game_number]
    IN
    IF pairing.t # "dict" THEN Raise
    ELSE
    LET white == Get(pairing, K_white, JObj(<<>>))
        black == Get(pairing, K_black, JObj(<<>>))
        result_ == Get(pairing, K_result, JStr(S_Star))
        white_name == get_player_name(white)
        black_name == get_player_name(black)
    IN
    IF white_name.k # "ok" \/ black_name.k # "ok" THEN Raise
    ELSE IF tournament_info_.t # "dict" THEN Raise
    ELSE
    LET white_fideid == Get(white, K_fideid, JStr(<<>>))
        black_fideid == Get(black, K_fideid, JStr(<<>>))
        timecontrol == format_time_control(
                           Get(tournament_info_, K_timecontrol, JStr(S_Unknown)))
    IN
    IF timecontrol.k # "ok" THEN Raise
    ELSE
    LET date == PyStr(Get(round_data_, K_date, JStr(S_UnknownDate)))
        all_headers == <<
            HeaderLine(S_Event,
                       PyStr(Get(tournament_info_, K_name, JStr(S_UnknownTournament)))),
            HeaderLine(S_Site,
                       PyStr(Get(tournament_info_, K_location, JStr(S_Unknown)))
                       \o <<",", " ">>
                       \o PyStr(Get(tournament_info_, K_country, JStr(<<>>)))),
            HeaderLine(S_Date, date),
            HeaderLine(S_Round, IntToStr(round_number)),
            HeaderLine(S_White, white_name.v),
            HeaderLine(S_Black, black_name.v),
            HeaderLine(S_Result, PyStr(result_)),
            HeaderLine(S_TimeControl, timecontrol.v),
            FideIdHeader(S_WhiteFideId, white_fideid),
            FideIdHeader(S_BlackFideId, black_fideid),
            HeaderLine(S_EventDate, date),
            HeaderLine(S_EventType, S_tournament),
            HeaderLine(S_Source, S_LiveChessCloud) >>
        pgn_headers == FilterHeaders(all_headers)
    IN
    IF game_data.t # "dict" THEN Raise
    ELSE
    LET moves == Get(game_data, K_moves, JStr(<<>>))
        formatted_moves == format_moves_with_time(moves)
    IN
    IF result_.t # "str" THEN Raise
    ELSE Ok(CombinePgn(pgn_headers, formatted_moves, result_.s))

-----------------------------------------------------------------------------
(* The documents a run may find in the data directory.                     *)

S_Cup == <<"C", "u", "p">>
S_Oslo == <<"O", "s", "l", "o">>
S_NO == <<"N", "O">>
S_Day == <<"2", "0", "2", "4", ".", "0", "1", ".", "0", "5">>
S_25m10s == <<"2", "5", "m", "+", "1", "0", "s">>
S_WhiteWins == <<"1", "-", "0">>
S_e4_60 == <<"e", "4", " ", "6", "0">>
S_e5_58 == <<"e", "5", " ", "5", "8">>

\* A JSON document that is not an object: the list [1].
ListDoc == JList(<<JInt(1)>>)

\* Tournament info declaring n rounds.
TournamentDoc(n) ==
    JObj(<< <<K_name, JStr(S_Cup)>>, <<K_location, JStr(S_Oslo)>>,
            <<K_country, JStr(S_NO)>>, <<K_timecontrol, JStr(S_25m10s)>>,
            <<K_rounds, JList([i \in 1..n |-> JObj(<<>>)])>> >>)

PlayerDoc(first, g) ==
    JObj(<< <<K_fname, JStr(first)>>, <<K_lname, JStr(IntToStr(g))>> >>)

\* The pairing of game g: White is "A <g>", Black is "B <g>".
PairingDoc(g) ==
    JObj(<< <<K_white, PlayerDoc(<<"A">>, g)>>, <<K_black, PlayerDoc(<<"B">>, g)>>,
            <<K_result, JStr(S_WhiteWins)>> >>)

\* A round index with n pairings.
RoundDoc(n) ==
    JObj(<< <<K_date, JStr(S_Day)>>, <<K_pairings, JList([g \in 1..n |-> PairingDoc(g)])>> >>)

\* A round index whose one pairing is not an object.
BadPairingRoundDoc ==
    JObj(<< <<K_date, JStr(S_Day)>>, <<K_pairings, JList(<<JStr(<<"x">>)>>)>> >>)

\* A round index whose one pairing has a player name part that is not a string.
BadNameRoundDoc ==
    JObj(<< <<K_date, JStr(S_Day)>>,
            <<K_pairings,
              JList(<< JObj(<< <<K_white, JObj(<< <<K_fname, JInt(5)>> >>)>>,
                               <<K_black, PlayerDoc(<<"B">>, 1)>>,
                               <<K_result, JStr(S_WhiteWins)>> >>) >>)>> >>)

\* A round index whose one pairing has no result yet: "result": null.
NullResultRoundDoc ==
    JObj(<< <<K_date, JStr(S_Day)>>,
            <<K_pairings,
              JList(<< JObj(<< <<K_white, PlayerDoc(<<"A">>, 1)>>,
                               <<K_black, PlayerDoc(<<"B">>, 1)>>,
                               <<K_result, JNull>> >>) >>)>> >>)

GameDoc == JObj(<< <<K_moves, JList(<<JStr(S_e4_60), JStr(S_e5_58)>>)>> >>)

InfoFiles ==
    {Absent, Malformed, JsonFile(JObj(<<>>)), JsonFile(ListDoc)}
    \cup {JsonFile(TournamentDoc(n)) : n \in 0..MaxRounds}

RoundFiles ==
    {Absent, Malformed, JsonFile(ListDoc), JsonFile(BadPairingRoundDoc),
     JsonFile(BadNameRoundDoc), JsonFile(NullResultRoundDoc)}
    \cup {JsonFile(RoundDoc(n)) : n \in 0..MaxGames}

\* An absent and an unparsable game file are loaded alike (None); the tournament
\* run draws the absent one, the direct calls below draw both.
GameFiles == {Absent, JsonFile(ListDoc), JsonFile(GameDoc)}

NoFile == [k |-> "absent"]
TextFile(text) == [k |-> "text", v |-> text]

OldOutputs == {NoFile, TextFile(<<"o", "l", "d">>)}

RoundIds == 1..MaxRounds
GameIds == RoundIds \X (1..(MaxGames + 1))

-----------------------------------------------------------------------------
(* generate_tournament_pgn as a run: one step per document loaded.         *)

Init ==
    /\ info_file \in InfoFiles
    /\ round_files = [r \in RoundIds |-> Unread]
    /\ game_files = [id \in GameIds |-> Unread]
    /\ old_output \in OldOutputs
    /\ output_file = old_output
    /\ pc = "start"
    /\ tournament_info = JNull
    /\ total_rounds = 0
    /\ round_num = 0
    /\ all_pgn_content = <<>>
    /\ success_count = 0
    /\ round_data = JNull
    /\ total_games = 0
    /\ game_num = 0
    /\ pgn_content = <<>>
    /\ game_pgn = RetNone
    /\ round_pgn = RetNone
    /\ fmt_call = NoCall
    /\ fmt_ret = RetNone
    /\ RequestIdle
    /\ result = "none"
    /\ rounds_log = <<>>
    /\ games_log = <<>>
    /\ writes = 0
    /\ write_error = "none"

\* An exception leaves generate_tournament_pgn: nothing below the raise runs.
Escape ==
    /\ pc' = "raised"
    /\ UNCHANGED <<output_file, result, writes>>

\* Line 325: if not tournament_info
InfoLoaded(info) == Truthy(info)

\* Lines 318-336: the output directory is made, the tournament info loaded.
TournamentStart ==
    /\ pc = "start"
    /\ LET info == load_tournament_info(info_file)
       IN  /\ tournament_info' = info
           /\ IF ~InfoLoaded(info)
              THEN /\ pc' = "done"
                   /\ result' = "False"
                   /\ UNCHANGED <<total_rounds, round_num, output_file, writes>>
              ELSE IF info.t # "dict" \/ ~HasLen(Get(info, K_rounds, JList(<<>>)))
              THEN /\ Escape
                   /\ UNCHANGED <<total_rounds, round_num>>
              ELSE /\ total_rounds' = PyLen(Get(info, K_rounds, JList(<<>>)))
                   /\ round_num' = 1
                   /\ pc' = "round"
                   /\ UNCHANGED <<output_file, result, writes>>
    /\ all_pgn_content' = <<>>
    /\ success_count' = 0
    /\ UNCHANGED <<info_file, round_files, game_files, old_output, round_data,
                   total_games, game_num, pgn_content, game_pgn, round_pgn, rounds_log,
                   games_log, write_error, fmt_call, fmt_ret, request_vars>>

\* Lines 338-348 for a round whose generate_round_pgn gave None or '':
\* nothing is appended, the loop goes to the next round.
RoundFailed ==
    /\ round_num' = round_num + 1
    /\ pc' = "round"
    /\ UNCHANGED <<all_pgn_content, success_count>>

\* A round without pairings taken into the loop over its games.
NoGames_Never(total) == FALSE

\* Line 293: if total_games == 0
NoGames(total) == total = 0

\* Lines 338-342 and 277-297: the loop calls generate_round_pgn, which loads the
\* tournament info again and the round index, and counts the pairings.
RoundStart ==
    /\ pc = "round"
    /\ round_num <= total_rounds
    /\ \E file \in RoundFiles :
        LET info == load_tournament_info(info_file)
            data == load_round_data(file)
        IN  /\ round_files' = [round_files EXCEPT ![round_num] = file]
            /\ rounds_log' = Append(rounds_log, round_num)
            /\ IF ~Truthy(info) \/ ~Truthy(data)
               THEN /\ RoundFailed
                    /\ round_pgn' = RetNone
                    /\ UNCHANGED <<round_data, total_games, game_num, pgn_content>>
               ELSE IF data.t # "dict" \/ ~HasLen(Get(data, K_pairings, JList(<<>>)))
               THEN /\ pc' = "raised"
                    /\ round_pgn' = Raise
                    /\ UNCHANGED <<round_num, all_pgn_content, success_count,
                                   round_data, total_games, game_num, pgn_content>>
               ELSE IF NoGames(PyLen(Get(data, K_pairings, JList(<<>>))))
               THEN /\ RoundFailed
                    /\ round_pgn' = RetNone
                    /\ UNCHANGED <<round_data, total_games, game_num, pgn_content>>
               ELSE /\ round_data' = data
                    /\ total_games' = PyLen(Get(data, K_pairings, JList(<<>>)))
                    /\ game_num' = 1
                    /\ pgn_content' = <<>>
                    /\ pc' = "game"
                    /\ UNCHANGED <<round_num, all_pgn_content, success_count, round_pgn>>
    /\ UNCHANGED <<info_file, game_files, old_output, output_file, tournament_info,
                   total_rounds, game_pgn, result, games_log, writes, write_error,
                   fmt_call, fmt_ret, request_vars>>

\* Lines 301-307: one turn of generate_round_pgn's loop over the games.  An
\* exception of generate_game_pgn leaves generate_round_pgn too.
GameStep ==
    /\ pc = "game"
    /\ game_num <= total_games
    /\ \E file \in GameFiles :
        /\ game_files' = [game_files EXCEPT ![<<round_num, game_num>>] = file]
        /\ games_log' = Append(games_log, <<round_num, game_num>>)
        /\ game_pgn' = generate_game_pgn(round_num, game_num, tournament_info,
                                         round_data, file)
        /\ IF game_pgn'.k = "raise"
           THEN /\ pc' = "raised"
                /\ round_pgn' = Raise
                /\ UNCHANGED <<game_num, pgn_content>>
           ELSE /\ pgn_content' = IF game_pgn'.k = "ok" /\ game_pgn'.v # <<>>
                                  THEN Append(pgn_content, game_pgn'.v)
                                  ELSE pgn_content
                /\ game_num' = game_num + 1
                /\ pc' = "game"
                /\ UNCHANGED round_pgn
    /\ UNCHANGED <<info_file, round_files, old_output, output_file, tournament_info,
                   total_rounds, round_num, all_pgn_content, success_count,
                   round_data, total_games, result, rounds_log, writes,
                   write_error, fmt_call, fmt_ret, request_vars>>

\* A round counted whatever generate_round_pgn returned.
RoundSucceeded_Always(block) == TRUE

\* Line 343: if pgn_content, for the str generate_round_pgn returned
RoundSucceeded(block) == block # <<>>

\* The block put in front of the earlier rounds' blocks.
AppendBlock_Prepend(blocks, block) == <<block>> \o blocks

\* Line 344: all_pgn_content.append(pgn_content)
AppendBlock(blocks, block) == Append(blocks, block)

\* Lines 309 and 343-348: generate_round_pgn returns the joined records, and
\* the tournament loop appends the block when it is not empty.
RoundEnd ==
    /\ pc = "game"
    /\ game_num > total_games
    /\ round_pgn' = Ok(Join(pgn_content, <<NL>>))
    /\ IF RoundSucceeded(round_pgn'.v)
       THEN /\ all_pgn_content' = AppendBlock(all_pgn_content, round_pgn'.v)
            /\ success_count' = success_count + 1
       ELSE UNCHANGED <<all_pgn_content, success_count>>
    /\ round_num' = round_num + 1
    /\ pc' = "round"
    /\ UNCHANGED <<info_file, round_files, game_files, old_output, output_file,
                   tournament_info, total_rounds, round_data, total_games, game_num,
                   pgn_content, game_pgn, result, rounds_log, games_log, writes,
                   write_error, fmt_call, fmt_ret, request_vars>>

\* The loop left one round early: range(1, total_rounds).
AllRoundsDone_OffByOne == round_num >= total_rounds

\* Line 338: range(1, total_rounds + 1) is exhausted.
AllRoundsDone == round_num > total_rounds

\* Lines 350-362: after the last round the blocks are written, when there are
\* any.  open(..., 'w') may raise (the file is untouched) and f.write may raise
\* (the file was truncated by open and holds a prefix of the text); both are
\* caught and give False.
TournamentEnd ==
    /\ pc = "round"
    /\ AllRoundsDone
    /\ pc' = "done"
    /\ IF all_pgn_content # <<>>
       THEN \/ /\ output_file' = TextFile(Join(all_pgn_content, <<NL>>))
               /\ writes' = writes + 1
               /\ write_error' = "none"
               /\ result' = "True"
            \/ /\ UNCHANGED <<output_file, writes>>
               /\ write_error' = "open"
               /\ result' = "False"
            \/ /\ \E half \in {0, 1} :
                      output_file' = TextFile(SubSeq(Join(all_pgn_content, <<NL>>), 1,
                                          half * (Len(Join(all_pgn_content, <<NL>>)) \div 2)))
               /\ writes' = writes + 1
               /\ write_error' = "write"
               /\ result' = "False"
       ELSE /\ result' = "False"
            /\ UNCHANGED <<output_file, writes, write_error>>
    /\ UNCHANGED <<info_file, round_files, game_files, old_output, tournament_info,
                   total_rounds, round_num, all_pgn_content, success_count,
                   round_data, total_games, game_num, pgn_content, game_pgn,
                   round_pgn, rounds_log, games_log, fmt_call, fmt_ret, request_vars>>

Next ==
    \/ TournamentStart
    \/ RoundStart
    \/ GameStep
    \/ RoundEnd
    \/ TournamentEnd

Spec == Init /\ [][Next]_vars

-----------------------------------------------------------------------------
(* generate_game_pgn called on its own, on documents of many shapes.       *)

S_1500_10 == <<"1", "5", "0", "0", "+", "1", "0">>
S_e4_x == <<"e", "4", " ", "x">>
S_e4e5Nf3 == <<"e", "4", " ", "e", "5", " ", "N", "f", "3">>

\* A member that may be left out of its object: a value that is no JSON value.
NoMember == [t |-> "absent"]

Member(key, value) == IF value.t = "absent" THEN <<>> ELSE << <<key, value>> >>

TournamentFields(name, location, country, timecontrol) ==
    JObj(Member(K_name, name) \o Member(K_location, location)
         \o Member(K_country, country) \o Member(K_timecontrol, timecontrol)
         \o << <<K_rounds, JList(<<JObj(<<>>)>>)>> >>)

\* The player of pairing g: a name shape and a fideid.
PlayerFields(shape, first, g, fideid) ==
    CASE shape = "full" ->
            JObj(<< <<K_fname, JStr(first)>>, <<K_mname, JNull>>,
                    <<K_lname, JStr(IntToStr(g))>> >> \o Member(K_fideid, fideid))
      [] shape = "last" ->
            JObj(<< <<K_lname, JStr(<<" ">> \o first \o IntToStr(g) \o <<" ">>)>> >>
                 \o Member(K_fideid, fideid))
      [] shape = "blank" ->
            JObj(<< <<K_fname, JStr(<<" ">>)>>, <<K_lname, JStr(<<>>)>> >>
                 \o Member(K_fideid, fideid))
      [] shape = "number" ->
            JObj(<< <<K_fname, JInt(5)>> >> \o Member(K_fideid, fideid))
      [] shape = "null" -> JNull

PairingFields(white, black, result_) ==
    JObj(<< <<K_white, white>>, <<K_black, black>> >> \o Member(K_result, result_))

\* A round index of n pairings whose pairing g is `special`.
RoundFields(date, n, g, special) ==
    JObj(Member(K_date, date)
         \o << <<K_pairings,
                 JList([i \in 1..n |-> IF i = g THEN special ELSE PairingDoc(i)])>> >>)

GameFields(moves) == JObj(Member(K_moves, moves))

NameValues == {NoMember, JNull, JStr(S_Cup)}
LocationValues == {NoMember, JNull, JStr(S_Oslo)}
CountryValues == {NoMember, JStr(S_NO)}
TimeControlValues == {NoMember, JStr(S_25m10s), JStr(S_1500_10), JInt(5)}
DateValues == {NoMember, JNull, JStr(S_Day)}
FideIdValues == {NoMember, JNull, JStr(<<>>), JStr(<<"1", "2">>), JInt(7), JInt(0)}
ResultValues == {NoMember, JNull, JStr(S_WhiteWins), JStr(S_Star), JInt(1)}
WhiteShapes == {"full", "last", "blank", "number", "null"}
BlackShapes == {"full", "blank"}
MovesValues ==
    {NoMember, JStr(<<>>), JList(<<>>), JInt(7), JNull, JInt(0), JBool(FALSE),
     JList(<<JStr(S_e4_60), JStr(S_e5_58)>>),
     JList(<<JStr(S_e4_60), JStr(S_e5_58), JStr(S_e4_x)>>),
     JStr(S_e4e5Nf3)}
GameCallFiles ==
    {Absent, Malformed, JsonFile(JNull), JsonFile(JObj(<<>>)), JsonFile(ListDoc),
     JsonFile(JObj(<< <<K_name, JStr(S_Cup)>> >>))}
    \cup {JsonFile(GameFields(moves)) : moves \in MovesValues}

\* The arguments of one call: tournament_info, round_data, game_number, the file.
\* Each family varies one group of fields and keeps the others at one value.
TournamentCalls ==
    { [info |-> TournamentFields(name, location, country, timecontrol),
       round |-> RoundFields(date, 1, 1, PairingDoc(1)),
       game |-> 1, file |-> JsonFile(GameDoc)] :
         name \in NameValues, location \in LocationValues, country \in CountryValues,
         timecontrol \in TimeControlValues, date \in DateValues }

PairingCalls ==
    { [info |-> TournamentDoc(1),
       round |-> RoundFields(JStr(S_Day), x[1], x[2],
                     PairingFields(PlayerFields(x[3], <<"W">>, x[2], x[4]),
                                   PlayerFields(x[5], <<"B">>, x[2], x[6]), x[7])),
       game |-> x[2], file |-> JsonFile(GameDoc)] :
         x \in { y \in (1..MaxGames) \X (1..MaxGames) \X WhiteShapes \X FideIdValues
                       \X BlackShapes \X FideIdValues \X ResultValues : y[2] <= y[1] } }

GameFileCalls ==
    { [info |-> TournamentDoc(1),
       round |-> RoundFields(JStr(S_Day), n, 1, PairingFields(
                     PlayerFields("full", <<"W">>, 1, NoMember),
                     PlayerFields("full", <<"B">>, 1, NoMember), result_)),
       game |-> g, file |-> file] :
         n \in 0..MaxGames, g \in 1..(MaxGames + 1), file \in GameCallFiles,
         result_ \in {NoMember, JStr(S_WhiteWins)} }

ShapeCalls ==
    { [info |-> info, round |-> round, game |-> 1, file |-> JsonFile(GameDoc)] :
         info \in {TournamentDoc(1), ListDoc},
         round \in {RoundDoc(1), ListDoc, BadPairingRoundDoc, BadNameRoundDoc,
                    JObj(<< <<K_pairings, JInt(3)>> >>),
                    JObj(<< <<K_pairings, JStr(<<"a", "b">>)>> >>)} }

GameCalls == TournamentCalls \cup PairingCalls \cup GameFileCalls \cup ShapeCalls

InitGame ==
    /\ \E call \in GameCalls, r \in RoundIds :
        /\ tournament_info = call.info
        /\ round_data = call.round
        /\ round_num = r
        /\ game_num = call.game
        /\ game_files = [id \in GameIds |-> IF id = <<r, call.game>> THEN call.file
                                            ELSE Unread]
    /\ info_file = Unread
    /\ round_files = [r \in RoundIds |-> Unread]
    /\ old_output = NoFile
    /\ output_file = NoFile
    /\ pc = "call"
    /\ total_rounds = 0
    /\ all_pgn_content = <<>>
    /\ success_count = 0
    /\ total_games = 0
    /\ pgn_content = <<>>
    /\ game_pgn = RetNone
    /\ round_pgn = RetNone
    /\ fmt_call = NoCall
    /\ fmt_ret = RetNone
    /\ RequestIdle
    /\ result = "none"
    /\ rounds_log = <<>>
    /\ games_log = <<>>
    /\ writes = 0
    /\ write_error = "none"

\* generate_game_pgn(round_num, game_num, tournament_info, round_data)
GameCall ==
    /\ pc = "call"
    /\ game_pgn' = generate_game_pgn(round_num, game_num, tournament_info, round_data,
                                     game_files[<<round_num, game_num>>])
    /\ pc' = IF game_pgn'.k = "raise" THEN "raised" ELSE "returned"
    /\ games_log' = Append(games_log, <<round_num, game_num>>)
    /\ UNCHANGED <<info_file, round_files, game_files, old_output, output_file,
                   tournament_info, total_rounds, round_num, all_pgn_content,
                   success_count, round_data, total_games, game_num, pgn_content,
                   round_pgn, result, rounds_log, writes, write_error, fmt_call, fmt_ret, request_vars>>

NextGame == GameCall

SpecGame == InitGame /\ [][NextGame]_vars

-----------------------------------------------------------------------------
(* What a run ought to have done, computed from the documents it read.     *)

InfoDoc == LoadJson(info_file)

\* The rounds the tournament info declares.
DeclaredRounds ==
    IF InfoDoc.t = "dict" /\ HasLen(Get(InfoDoc, K_rounds, JList(<<>>)))
    THEN PyLen(Get(InfoDoc, K_rounds, JList(<<>>)))
    ELSE 0

RoundDocOf(r) == LoadJson(round_files[r])

PairingsOf(doc) ==
    IF doc.t = "dict" THEN Get(doc, K_pairings, JList(<<>>)) ELSE JList(<<>>)

PairingCount(doc) == IF HasLen(PairingsOf(doc)) THEN PyLen(PairingsOf(doc)) ELSE 0

\* The record of game g of round r, from the documents read.
RecordOf(r, g) ==
    generate_game_pgn(r, g, InfoDoc, RoundDocOf(r), game_files[<<r, g>>])

\* The records of the games 1..n of round r that were built, in game order.
RECURSIVE RecordsOf(_, _)
RecordsOf(r, n) ==
    IF n = 0 THEN <<>>
    ELSE IF RecordOf(r, n).k = "ok"
         THEN Append(RecordsOf(r, n - 1), RecordOf(r, n).v)
         ELSE RecordsOf(r, n - 1)

ExpectedBlock(r) == Join(RecordsOf(r, PairingCount(RoundDocOf(r))), <<NL>>)

\* The rounds that yielded at least one record.
RoundsBuilt == {r \in 1..DeclaredRounds : ExpectedBlock(r) # <<>>}

RECURSIVE BlocksUpTo(_)
BlocksUpTo(n) ==
    IF n = 0 THEN <<>>
    ELSE IF n \in RoundsBuilt THEN Append(BlocksUpTo(n - 1), ExpectedBlock(n))
         ELSE BlocksUpTo(n - 1)

ExpectedText == Join(BlocksUpTo(DeclaredRounds), <<NL>>)

RECURSIVE GamesUpTo(_)
GamesUpTo(n) ==
    IF n = 0 THEN <<>>
    ELSE GamesUpTo(n - 1) \o [g \in 1..PairingCount(RoundDocOf(n)) |-> <<n, g>>]

\* A document of the expected shape, or none at all.
WellShapedRound(file) ==
    file.k # "json" \/ \E n \in 0..MaxGames : file.v = RoundDoc(n)

WellShapedGame(file) == file.k # "json" \/ file.v = GameDoc

WellShapedInfo == \E n \in 0..MaxRounds : InfoDoc = TournamentDoc(n)

WellShapedInputs ==
    /\ WellShapedInfo
    /\ \A r \in RoundIds : WellShapedRound(round_files[r])
    /\ \A id \in GameIds : WellShapedGame(game_files[id])

Finished == pc \in {"done", "raised"}

-----------------------------------------------------------------------------
(* Claims on generate_tournament_pgn.                                      *)

\* C1: a failure while processing a game or a round, documents of unexpected
\* shape included, is confined to it: with a tournament info of the expected
\* shape, no exception leaves the run, whatever the round and game documents hold.
C1_NoEscape == WellShapedInfo => pc # "raised"

\* C2 as stated: the run reports success exactly when some round yielded content,
\* with the count of such rounds out of the rounds declared; absent rounds do
\* not prevent success.
C2_SuccessIffContent ==
    /\ result = "True" =>
           /\ RoundsBuilt # {}
           /\ success_count = Cardinality(RoundsBuilt)
           /\ total_rounds = DeclaredRounds
    /\ (pc = "done" /\ WellShapedInputs /\ RoundsBuilt # {}) => result = "True"

\* C2 amended: the same, provided the output file can be opened and written.
C2_SuccessIffContentWritten ==
    /\ result = "True" =>
           /\ RoundsBuilt # {}
           /\ success_count = Cardinality(RoundsBuilt)
           /\ total_rounds = DeclaredRounds
    /\ (pc = "done" /\ WellShapedInputs /\ RoundsBuilt # {} /\ write_error = "none")
           => result = "True"

\* One of two declared rounds is absent, the other is built: success, 1 of 2.
C2_Witness ==
    /\ result = "True"
    /\ total_rounds = 2
    /\ round_files[2] = Absent
    /\ success_count = 1

\* C3: when the tournament info is missing or unparsable the run fails at once:
\* no round or game is loaded and the output file is not touched.  It is the
\* only fatal document: with the info loaded, every declared round is tried and
\* a finished run fails only for want of content or of a writable output file.
C3_InfoIsFatal ==
    /\ (pc # "start" /\ info_file.k # "json") =>
           /\ pc = "done"
           /\ result = "False"
           /\ rounds_log = <<>>
           /\ games_log = <<>>
           /\ output_file = old_output
           /\ writes = 0
    /\ (pc = "done" /\ info_file.k = "json" /\ InfoLoaded(InfoDoc)) =>
           /\ rounds_log = [i \in 1..total_rounds |-> i]
           /\ result = "False" => (RoundsBuilt = {} \/ write_error # "none")

\* The info is absent, an earlier output file exists, the run has ended.
C3_Witness ==
    /\ pc = "done"
    /\ info_file = Absent
    /\ old_output # NoFile
    /\ output_file = old_output

\* C4: the output file is written exactly once, after every round was processed;
\* until the run ends the file is as it was.
C4_WriteOnce ==
    /\ result = "True" =>
           /\ writes = 1
           /\ rounds_log = [i \in 1..DeclaredRounds |-> i]
    /\ pc # "done" => (output_file = old_output /\ writes = 0)
    /\ writes <= 1

\* A successful run over MaxRounds rounds that replaced an earlier output file.
C4_Witness ==
    /\ result = "True"
    /\ old_output # NoFile
    /\ output_file # old_output
    /\ DeclaredRounds = MaxRounds

\* C5: every declared round and every game of every round is processed exactly
\* once in ascending order, and the run always gets to its end.
C5_AllProcessedInOrder ==
    (Finished /\ WellShapedInfo) =>
        /\ pc = "done"
        /\ rounds_log = [i \in 1..DeclaredRounds |-> i]
        /\ games_log = GamesUpTo(DeclaredRounds)

\* C6: the text written is the blocks of the rounds built, in round order,
\* joined by a newline; a block is the round's records, in game order, joined
\* by a newline.
C6_OutputText == result = "True" => output_file = TextFile(ExpectedText)

\* Two rounds were built, one of them with a game skipped.
C6_Witness ==
    /\ result = "True"
    /\ Cardinality(RoundsBuilt) = 2
    /\ \E id \in GameIds : game_files[id] = Absent
    /\ output_file = TextFile(ExpectedText)

-----------------------------------------------------------------------------
(* Reading a record back: header lines, blank line, body, blank line.      *)

EndsWith(s, tail) ==
    Len(s) >= Len(tail) /\ SubSeq(s, Len(s) - Len(tail) + 1, Len(s)) = tail

HasBlankLine(s) == \E i \in 1..(Len(s) - 1) : s[i] = NL /\ s[i + 1] = NL

\* The index of the newline that ends the last header line.
FirstBlank(s) ==
    CHOOSE i \in 1..(Len(s) - 1) :
        /\ s[i] = NL /\ s[i + 1] = NL
        /\ \A j \in 1..(i - 1) : ~(s[j] = NL /\ s[j + 1] = NL)

HeaderLines(rec) == SplitOn(SubSeq(rec, 1, FirstBlank(rec) - 1), NL)

\* What follows the first blank line.
RestText(rec) == SubSeq(rec, FirstBlank(rec) + 2, Len(rec))

BodyText(rec) == SubSeq(RestText(rec), 1, Len(RestText(rec)) - 2)

\* [Tag "value"]
IsHeaderLine(line) ==
    /\ Len(line) >= 6
    /\ line[1] = "["
    /\ Contains(line, " ")
    /\ IndexOf(line, " ") > 2
    /\ IndexOf(line, " ") + 1 <= Len(line) - 2
    /\ line[IndexOf(line, " ") + 1] = "\""
    /\ EndsWith(line, <<"\"", "]">>)

TagName(line) == SubSeq(line, 2, IndexOf(line, " ") - 1)

TagValue(line) == SubSeq(line, IndexOf(line, " ") + 2, Len(line) - 2)

TagNames(rec) == [i \in 1..Len(HeaderLines(rec)) |-> TagName(HeaderLines(rec)[i])]

\* The value of the first header line of rec with this tag.
ValueOf(rec, tag) ==
    TagValue(HeaderLines(rec)[CHOOSE i \in 1..Len(HeaderLines(rec)) :
                                  /\ TagName(HeaderLines(rec)[i]) = tag
                                  /\ \A j \in 1..(i - 1) : TagName(HeaderLines(rec)[j]) # tag])

WellFormedRecord(rec) ==
    /\ HasBlankLine(rec)
    /\ \A i \in 1..Len(HeaderLines(rec)) : IsHeaderLine(HeaderLines(rec)[i])
    /\ EndsWith(RestText(rec), <<NL, NL>>)

\* The arguments of the call made.
CallFile == game_files[<<round_num, game_num>>]

CallPairing == PairingsOf(round_data).l[game_num]

CallPlayer(colour) == Get(CallPairing, colour, JObj(<<>>))

Called == pc \in {"returned", "raised"}

Returned == pc = "returned" /\ game_pgn.k = "ok"

\* The key is absent from the object, or its value is null.
FieldMissing(doc, key) == ~HasKey(doc, key) \/ Get(doc, key, JNull).t = "null"

\* No fideid, or an empty one: null, "" and 0 are all empty to the code.
FideIdMissing(player) ==
    \/ FieldMissing(player, K_fideid)
    \/ Get(player, K_fideid, JNull) \in {JStr(<<>>), JInt(0)}

\* The member is a string, or is missing.
StrOrMissing(doc, key) == FieldMissing(doc, key) \/ Get(doc, key, JNull).t = "str"

WellShapedPlayer(player) ==
    /\ player.t = "dict"
    /\ \A key \in {K_fname, K_mname, K_lname} : StrOrMissing(player, key)

WellShapedPairing(pairing) ==
    /\ pairing.t = "dict"
    /\ WellShapedPlayer(Get(pairing, K_white, JObj(<<>>)))
    /\ WellShapedPlayer(Get(pairing, K_black, JObj(<<>>)))
    /\ StrOrMissing(pairing, K_result)

\* The documents of the call have the members' types the program expects.
WellShapedCall ==
    /\ tournament_info.t = "dict"
    /\ StrOrMissing(tournament_info, K_timecontrol)
    /\ round_data.t = "dict"
    /\ PairingsOf(round_data).t = "list"
    /\ \A i \in 1..PairingCount(round_data) :
           WellShapedPairing(PairingsOf(round_data).l[i])
    /\ CallFile.k = "json" => CallFile.v.t \in {"dict", "null"}

S_ExampleTail ==
    <<"e", "5", " ", "{", "[", "%", "c", "l", "k", " ", "0", "0", ":", "0", "0", ":",
      "5", "8", "]", "}", " ", "1", "-", "0">>

-----------------------------------------------------------------------------
(* Claims on generate_game_pgn.                                            *)

\* C7: on documents whose members have the expected types, generate_game_pgn
\* returns None when the game document is missing (or holds nothing) or the
\* game number exceeds the pairing count; otherwise it returns a record whose
\* White, Black and Result are those of the pairing of that game number, Result
\* being "*" when the pairing has no result (no key, or null).
C7_GameRecord ==
    (Called /\ WellShapedCall) =>
        IF ~Truthy(LoadJson(CallFile)) \/ game_num > PairingCount(round_data)
        THEN pc = "returned" /\ game_pgn.k = "none"
        ELSE /\ Returned
             /\ ValueOf(game_pgn.v, S_White) = get_player_name(CallPlayer(K_white)).v
             /\ ValueOf(game_pgn.v, S_Black) = get_player_name(CallPlayer(K_black)).v
             /\ ValueOf(game_pgn.v, S_Result) =
                    IF FieldMissing(CallPairing, K_result) THEN S_Star
                    ELSE PyStr(Get(CallPairing, K_result, JNull))

\* C8: a returned record has its tags in the fixed order, the WhiteFideId and
\* BlackFideId lines left out exactly when that player's fideid is absent or
\* empty and no other tag left out; EventDate equals Date, EventType is
\* "tournament" and Source is "LiveChessCloud".
C8_HeaderOrder ==
    Returned =>
        /\ WellFormedRecord(game_pgn.v)
        /\ TagNames(game_pgn.v) =
               <<S_Event, S_Site, S_Date, S_Round, S_White, S_Black, S_Result,
                 S_TimeControl>>
               \o (IF FideIdMissing(CallPlayer(K_white)) THEN <<>> ELSE <<S_WhiteFideId>>)
               \o (IF FideIdMissing(CallPlayer(K_black)) THEN <<>> ELSE <<S_BlackFideId>>)
               \o <<S_EventDate, S_EventType, S_Source>>
        /\ ValueOf(game_pgn.v, S_EventDate) = ValueOf(game_pgn.v, S_Date)
        /\ ValueOf(game_pgn.v, S_EventType) = S_tournament
        /\ ValueOf(game_pgn.v, S_Source) = S_LiveChessCloud

\* A record of a pairing whose White has no fideid and whose Black has one.
C8_Witness ==
    /\ Returned
    /\ ~HasKey(CallPlayer(K_white), K_fideid)
    /\ Get(CallPlayer(K_black), K_fideid, JNull) = JStr(<<"1", "2">>)
    /\ Len(TagNames(game_pgn.v)) = 12

\* C9: in a returned record a tournament name, location or round date that is
\* missing (key absent or value null) is replaced by its fallback: Event is
\* "Unknown Tournament", the location part of Site is "Unknown", Date and
\* EventDate are "????.??.??".
C9_Fallbacks ==
    Returned =>
        /\ FieldMissing(tournament_info, K_name) =>
               ValueOf(game_pgn.v, S_Event) = S_UnknownTournament
        /\ FieldMissing(tournament_info, K_location) =>
               ValueOf(game_pgn.v, S_Site)
                   = S_Unknown \o <<",", " ">>
                     \o PyStr(Get(tournament_info, K_country, JStr(<<>>)))
        /\ FieldMissing(round_data, K_date) =>
               /\ ValueOf(game_pgn.v, S_Date) = S_UnknownDate
               /\ ValueOf(game_pgn.v, S_EventDate) = S_UnknownDate

\* C10: a returned record is the header lines joined by newline, a blank line,
\* the body and a trailing blank line; the body is the formatted moves, one
\* space and the result token, which equals the Result tag; for the moves
\* ["e4 60", "e5 58"] and the result "1-0" the body ends with
\* e5 {[%clk 00:00:58]} 1-0.
C10_RecordLayout ==
    Returned =>
        /\ WellFormedRecord(game_pgn.v)
        /\ game_pgn.v = Join(HeaderLines(game_pgn.v), <<NL>>) \o <<NL, NL>>
                        \o BodyText(game_pgn.v) \o <<NL, NL>>
        /\ BodyText(game_pgn.v)
               = format_moves_with_time(Get(CallFile.v, K_moves, JStr(<<>>)))
                 \o <<" ">> \o ValueOf(game_pgn.v, S_Result)
        /\ (/\ CallFile.v = GameDoc
            /\ Get(CallPairing, K_result, JNull) = JStr(S_WhiteWins))
               => EndsWith(BodyText(game_pgn.v), S_ExampleTail)

\* The record of the moves ["e4 60", "e5 58"] with the result "1-0".
C10_Witness ==
    /\ Returned
    /\ CallFile.v = GameDoc
    /\ Get(CallPairing, K_result, JNull) = JStr(S_WhiteWins)
    /\ ValueOf(game_pgn.v, S_Result) = S_WhiteWins
    /\ EndsWith(BodyText(game_pgn.v), S_ExampleTail)

-----------------------------------------------------------------------------
(* The formatting functions called on their own.                           *)

MaxMoves == 3
MaxSeconds == 130
MaxMinutes == 11
MaxIncrement == 2

S_e4 == <<"e", "4">>
S_Nf3_x == <<"N", "f", "3", " ", "x">>
S_d4_1518_2 == <<"d", "4", " ", "1", "5", "1", "8", "+", "2">>
S_e4_e5_tabs == <<" ", "e", "4", "\t", "e", "5", " ", "\n">>

\* The tokens a moves list may hold: with and without a time-spec, with a
\* time-spec that is no number, and a token that is no string.
MoveTokens ==
    {JStr(S_e4), JStr(S_e4_60), JStr(S_e5_58), JStr(S_Nf3_x), JStr(S_d4_1518_2), JInt(5)}

MoveLists == UNION {[1..n -> MoveTokens] : n \in 0..MaxMoves}

\* What the moves member of a game document may hold.
MovesInputs ==
    {JList(l) : l \in MoveLists}
    \cup {JStr(<<>>), JStr(<<" ">>), JStr(S_e4e5Nf3), JStr(S_e4_e5_tabs)}
    \cup {JNull, JInt(0), JInt(7), JBool(FALSE), JBool(TRUE), JObj(<<>>),
          JObj(<< <<K_moves, JInt(1)>> >>)}

SecondsValues ==
    (0..MaxSeconds) \cup {1518, 3599, 3600, 3661, 86399, 86400, 90000, 360000}

\* Time-specs: seconds, seconds with an increment, and texts that are no number.
TimeSpecs ==
    {NatToStr(n) : n \in SecondsValues}
    \cup {NatToStr(n) \o <<"+", "2">> : n \in SecondsValues}
    \cup {<<>>, <<"x">>, <<"1", "2", "a">>, <<"+", "5">>, <<"1", ".", "5">>,
          <<" ", "6", "0">>, <<"-", "5">>}

\* "<N>m+<M>s" written without spaces, with spaces around its parts, and with
\* spaces everywhere.
Spaced(s) == Join([i \in 1..Len(s) |-> <<s[i]>>], <<" ">>)

MinutesAlone(n) == NatToStr(n) \o <<"m">>

MinutesAndSeconds(n, m) == NatToStr(n) \o <<"m", "+">> \o NatToStr(m) \o <<"s">>

MinutesAndSecondsWide(n, m) ==
    NatToStr(n) \o <<" ", "m", " ", "+", " ">> \o NatToStr(m) \o <<" ", "s">>

OtherTimeControls ==
    {JNull, JStr(<<>>), JStr(S_Unknown), JStr(S_1500_10), JStr(S_25m10s), JStr(<<"1", "5", "0", "0">>),
     JStr(<<"1", "5", "0", "0", "+">>), JStr(<<"+", "1", "0">>),
     JStr(<<"1", "+", "2", "+", "3">>), JStr(<<"g", "a", "r", "b", "a", "g", "e">>),
     JStr(<<"m", "+", "s">>), JStr(<<"x", "m", "+", "1", "s">>),
     JStr(<<"5", "m", "+", "1", "s", "+", "2">>), JStr(<<"2", "5", "s">>),
     JStr(<<"1", "5", " ", "+", " ", "5">>), JInt(5), JInt(0)}

TimeControls ==
    {JStr(MinutesAlone(n)) : n \in 0..MaxMinutes}
    \cup {JStr(MinutesAndSeconds(n, m)) : n \in 0..MaxMinutes, m \in 0..MaxIncrement}
    \cup {JStr(MinutesAndSecondsWide(n, m)) : n \in 0..MaxMinutes, m \in 0..MaxIncrement}
    \cup {JStr(Spaced(MinutesAndSeconds(n, m))) : n \in 0..MaxMinutes, m \in 0..MaxIncrement}
    \cup OtherTimeControls

\* A name part: absent, null, empty, blank, plain, and padded with whitespace.
NamePartValues ==
    {NoMember, JNull, JStr(<<>>), JStr(<<" ", "\t">>), JStr(<<"A", "l">>),
     JStr(<<" ", "B", " ", "c", " ">>)}

Players ==
    {JObj(Member(K_fname, f) \o Member(K_mname, m) \o Member(K_lname, l)) :
         f \in NamePartValues, m \in NamePartValues, l \in NamePartValues}

FmtCalls ==
    {[fn |-> "format_moves_with_time", arg |-> v] : v \in MovesInputs}
    \cup {[fn |-> "format_time_chessbase", arg |-> s] : s \in TimeSpecs}
    \cup {[fn |-> "format_time_control", arg |-> v] : v \in TimeControls}
    \cup {[fn |-> "get_player_name", arg |-> v] : v \in Players}

InitFmt ==
    /\ fmt_call \in FmtCalls
    /\ fmt_ret = RetNone
    /\ RequestIdle
    /\ pc = "fmt"
    /\ info_file = Unread
    /\ round_files = [r \in RoundIds |-> Unread]
    /\ game_files = [id \in GameIds |-> Unread]
    /\ old_output = NoFile
    /\ output_file = NoFile
    /\ tournament_info = JNull
    /\ total_rounds = 0
    /\ round_num = 0
    /\ all_pgn_content = <<>>
    /\ success_count = 0
    /\ round_data = JNull
    /\ total_games = 0
    /\ game_num = 0
    /\ pgn_content = <<>>
    /\ game_pgn = RetNone
    /\ round_pgn = RetNone
    /\ result = "none"
    /\ rounds_log = <<>>
    /\ games_log = <<>>
    /\ writes = 0
    /\ write_error = "none"

\* The call returns or raises; nothing else changes.
FmtReturn(outcome) ==
    /\ fmt_ret' = outcome
    /\ pc' = IF outcome.k = "raise" THEN "raised" ELSE "returned"
    /\ UNCHANGED <<info_file, round_files, game_files, old_output, output_file,
                   tournament_info, total_rounds, round_num, all_pgn_content,
                   success_count, round_data, total_games, game_num, pgn_content,
                   game_pgn, round_pgn, result, rounds_log, games_log, writes,
                   write_error, fmt_call, request_vars>>

FormatMovesCall ==
    /\ pc = "fmt"
    /\ fmt_call.fn = "format_moves_with_time"
    /\ FmtReturn(Ok(format_moves_with_time(fmt_call.arg)))

FormatTimeChessbaseCall ==
    /\ pc = "fmt"
    /\ fmt_call.fn = "format_time_chessbase"
    /\ FmtReturn(Ok(format_time_chessbase(fmt_call.arg)))

FormatTimeControlCall ==
    /\ pc = "fmt"
    /\ fmt_call.fn = "format_time_control"
    /\ FmtReturn(format_time_control(fmt_call.arg))

GetPlayerNameCall ==
    /\ pc = "fmt"
    /\ fmt_call.fn = "get_player_name"
    /\ FmtReturn(get_player_name(fmt_call.arg))

NextFmt ==
    \/ FormatMovesCall
    \/ FormatTimeChessbaseCall
    \/ FormatTimeControlCall
    \/ GetPlayerNameCall

SpecFmt == InitFmt /\ [][NextFmt]_vars

-----------------------------------------------------------------------------
(* Claims on the formatting functions.                                     *)

FmtReturned(fn) == pc = "returned" /\ fmt_call.fn = fn /\ fmt_ret.k = "ok"

\* Line k of the move text of the tokens toks, each token rendered by Render.
MoveLineOf(Render(_), toks, k) ==
    NatToStr(k) \o <<".">> \o Render(toks[2 * k - 1])
    \o (IF 2 * k <= Len(toks) THEN <<" ">> \o Render(toks[2 * k]) ELSE <<>>)

\* The move text of toks: one line per pair of tokens.
MoveTextOf(Render(_), toks) ==
    Join([k \in 1..((Len(toks) + 1) \div 2) |-> MoveLineOf(Render, toks, k)], <<NL>>)

RenderToken(tok) ==
    IF tok.t = "str" /\ \E i \in 1..Len(tok.s) : tok.s[i] = " "
    THEN LET i == CHOOSE j \in 1..Len(tok.s) :
                      tok.s[j] = " " /\ \A h \in 1..(j - 1) : tok.s[h] # " "
         IN  SubSeq(tok.s, 1, i - 1) \o <<" ">>
             \o format_time_chessbase(SubSeq(tok.s, i + 1, Len(tok.s)))
    ELSE PyStr(tok)

S_e4e5_Formatted ==
    <<"1", ".", "e", "4", " ", "{", "[", "%", "c", "l", "k", " ", "0", "0", ":", "0",
      "1", ":", "0", "0", "]", "}", " ", "e", "5", " ", "{", "[", "%", "c", "l", "k",
      " ", "0", "0", ":", "0", "0", ":", "5", "8", "]", "}">>

BeforePlus(s) ==
    IF \E i \in 1..Len(s) : s[i] = "+"
    THEN SubSeq(s, 1, (CHOOSE i \in 1..Len(s) :
                           s[i] = "+" /\ \A j \in 1..(i - 1) : s[j] # "+") - 1)
    ELSE s

\* n written with at least two digits.
TwoDigits(n) == IF 0 <= n /\ n < 10 THEN <<"0">> \o NatToStr(n) ELSE IntToStr(n)

\* {[%clk HH:MM:SS]} of a number of seconds.
ClockTagOf(seconds) ==
    <<"{", "[", "%", "c", "l", "k", " ">>
    \o TwoDigits(seconds \div 3600) \o <<":">>
    \o TwoDigits((seconds % 3600) \div 60) \o <<":">>
    \o TwoDigits(seconds % 60) \o <<"]", "}">>

S_Clk_25_00_00 ==
    <<"{", "[", "%", "c", "l", "k", " ", "2", "5", ":", "0", "0", ":", "0", "0", "]", "}">>

S_Clk_00_25_18 ==
    <<"{", "[", "%", "c", "l", "k", " ", "0", "0", ":", "2", "5", ":", "1", "8", "]", "}">>

\* C13: format_time_chessbase drops a "+<increment>" suffix; when the remainder
\* is an integer S it returns {[%clk HH:MM:SS]} with HH = S div 3600,
\* MM = (S mod 3600) div 60, SS = S mod 60, two digits each, HH not wrapped at 24
\* (90000 gives 25:00:00, "1518+2" and "1518" give 00:25:18); otherwise "".
C13_ClockTag ==
    FmtReturned("format_time_chessbase") =>
        /\ IF ParseInt(BeforePlus(fmt_call.arg)).k = "ok"
           THEN fmt_ret.v = ClockTagOf(ParseInt(BeforePlus(fmt_call.arg)).v)
           ELSE fmt_ret.v = <<>>
        /\ fmt_call.arg = <<"9", "0", "0", "0", "0">> => fmt_ret.v = S_Clk_25_00_00
        /\ fmt_call.arg \in {<<"1", "5", "1", "8">>, <<"1", "5", "1", "8", "+", "2">>}
               => fmt_ret.v = S_Clk_00_25_18

\* More than a day of seconds, with an increment to drop.
C13_Witness ==
    /\ FmtReturned("format_time_chessbase")
    /\ fmt_call.arg = <<"9", "0", "0", "0", "0", "+", "2">>
    /\ fmt_ret.v = S_Clk_25_00_00

-----------------------------------------------------------------------------
(* Claim on the moves member of a game document.                           *)

\* The tokens of a moves text: its runs of non-whitespace characters.
TokensOf(s) == [i \in 1..Len(SplitWS(s)) |-> JStr(SplitWS(s)[i])]

\* The move text of a moves member as the claim words it: every value that is
\* neither a sequence nor a string gives its string form.
MovesTextAsStated(moves) ==
    CASE moves.t = "list" -> MoveTextOf(RenderToken, moves.l)
      [] moves.t = "str" -> MoveTextOf(RenderToken, TokensOf(moves.s))
      [] OTHER -> PyStr(moves)

\* The same, but null, 0 and false give the empty string.
MovesTextAmended(moves) ==
    CASE moves.t = "list" -> MoveTextOf(RenderToken, moves.l)
      [] moves.t = "str" -> MoveTextOf(RenderToken, TokensOf(moves.s))
      [] OTHER -> IF Truthy(moves) THEN PyStr(moves) ELSE <<>>

\* The call is on a game document that holds something, for a pairing of the
\* round whose result, if any, is a string.
MovesCall ==
    /\ Called
    /\ WellShapedCall
    /\ CallFile.k = "json"
    /\ CallFile.v.t = "dict"
    /\ Truthy(CallFile.v)
    /\ game_num <= PairingCount(round_data)
    /\ ~(HasKey(CallPairing, K_result) /\ Get(CallPairing, K_result, JNull).t = "null")

CallMoves == Get(CallFile.v, K_moves, JStr(<<>>))

\* The body of the record without the space and the result token that end it.
MovesOfBody(rec) ==
    SubSeq(BodyText(rec), 1, Len(BodyText(rec)) - 1 - Len(ValueOf(rec, S_Result)))

\* C14 as stated: a sequence is used as it is, a string is split on whitespace,
\* an empty sequence gives the empty string, every other value gives its string
\* form; in every case generate_game_pgn returns a record.
C14_MovesResolved ==
    MovesCall => (Returned /\ MovesOfBody(game_pgn.v) = MovesTextAsStated(CallMoves))

\* C14 amended: the same, but a value that is neither a sequence nor a string
\* gives its string form only when it is not null, 0 or false, which give the
\* empty string.
C14_MovesResolvedTruthy ==
    MovesCall => (Returned /\ MovesOfBody(game_pgn.v) = MovesTextAmended(CallMoves))

\* A record was returned for a game whose moves member is the number 7.
C14_Witness ==
    /\ MovesCall
    /\ Returned
    /\ CallMoves = JInt(7)
    /\ MovesOfBody(game_pgn.v) = <<"7">>

-----------------------------------------------------------------------------
(* Claims on format_time_control and get_player_name.                      *)

FmtCalled(fn) == pc \in {"returned", "raised"} /\ fmt_call.fn = fn

\* C15: "<N>m" alone, minutes without an increment, gives "<N*60>".
C15_MinutesAlone ==
    \A n \in 0..MaxMinutes :
        (FmtCalled("format_time_control") /\ fmt_call.arg = JStr(MinutesAlone(n)))
            => fmt_ret = Ok(NatToStr(n * 60))

\* C16: "<N>m+<M>s", with or without spaces inside it, gives "<N*60>+<M>";
\* "25m+10s" gives "1500+10".
C16_MinutesAndSeconds ==
    /\ \A n \in 0..MaxMinutes, m \in 0..MaxIncrement :
           (/\ FmtCalled("format_time_control")
            /\ fmt_call.arg \in {JStr(MinutesAndSeconds(n, m)),
                                 JStr(MinutesAndSecondsWide(n, m)),
                                 JStr(Spaced(MinutesAndSeconds(n, m)))})
               => fmt_ret = Ok(NatToStr(n * 60) \o <<"+">> \o NatToStr(m))
    /\ (FmtCalled("format_time_control") /\ fmt_call.arg = JStr(S_25m10s))
           => fmt_ret = Ok(S_1500_10)

\* Ten minutes and two seconds written with a space after every character.
C16_Witness ==
    /\ FmtReturned("format_time_control")
    /\ fmt_call.arg = JStr(<<"1", " ", "0", " ", "m", " ", "+", " ", "2", " ", "s">>)
    /\ fmt_ret.v = <<"6", "0", "0", "+", "2">>

\* <digits>+<digits>
IsNumericTimeControl(s) ==
    /\ Len(SplitOn(s, "+")) = 2
    /\ IsDigitStr(SplitOn(s, "+")[1])
    /\ IsDigitStr(SplitOn(s, "+")[2])

\* digits followed by the unit
IsAmount(s, unit) ==
    /\ Len(s) >= 2
    /\ s[Len(s)] = unit
    /\ IsDigitStr(SubSeq(s, 1, Len(s) - 1))

\* "<N>m+<M>s" or "<N>m", spaces apart: the forms of C15 and C16.
IsMinutesForm(s) ==
    LET parts == SplitOn(RemoveChar(s, " "), "+")
    IN  \/ Len(parts) = 2 /\ IsAmount(parts[1], "m") /\ IsAmount(parts[2], "s")
        \/ Len(parts) = 1 /\ IsAmount(parts[1], "m")

\* C17: format_time_control never fails; a missing value or "Unknown" gives
\* "2500+10"; "<digits>+<digits>" is returned unchanged, so that formatting the
\* result again changes nothing; every other form gives "2500+10".  Stated for
\* the values that are a string or missing.
C17_FallThrough ==
    (FmtCalled("format_time_control") /\ fmt_call.arg.t \in {"str", "null"}) =>
        /\ fmt_ret.k = "ok"
        /\ IF ~Truthy(fmt_call.arg) \/ fmt_call.arg.s = S_Unknown
           THEN fmt_ret.v = S_DefaultTC
           ELSE IF IsNumericTimeControl(fmt_call.arg.s)
           THEN /\ fmt_ret.v = fmt_call.arg.s
                /\ format_time_control(JStr(fmt_ret.v)) = fmt_ret
           ELSE IF IsMinutesForm(fmt_call.arg.s) THEN TRUE
           ELSE fmt_ret.v = S_DefaultTC

\* The trimmed text of a name part; nothing for an absent, null or empty part.
TrimmedPart(player, key) ==
    IF HasKey(player, key) /\ Get(player, key, JNull).t = "str"
    THEN Strip(Get(player, key, JNull).s)
    ELSE <<>>

\* The parts that are left, in the order first, middle, last.
KeptParts(player) ==
    SelectSeq(<<TrimmedPart(player, K_fname), TrimmedPart(player, K_mname),
                TrimmedPart(player, K_lname)>>, LAMBDA part : part # <<>>)

\* C18: get_player_name returns the non-empty trimmed first, middle and last
\* name parts, in that order, joined by single spaces, whatever parts are
\* absent, null, empty or blank; it returns "Unknown" exactly when none is left.
C18_PlayerName ==
    FmtCalled("get_player_name") =>
        /\ fmt_ret.k = "ok"
        /\ KeptParts(fmt_call.arg) # <<>> =>
               fmt_ret.v = Join(KeptParts(fmt_call.arg), <<" ">>)
        /\ fmt_ret.v = S_Unknown <=> KeptParts(fmt_call.arg) = <<>>

\* A null first name, a padded middle name and a plain last name.
C18_Witness ==
    /\ FmtReturned("get_player_name")
    /\ fmt_call.arg = JObj(<< <<K_fname, JNull>>,
                              <<K_mname, JStr(<<" ", "B", " ", "c", " ">>)>>,
                              <<K_lname, JStr(<<"A", "l">>)>> >>)
    /\ fmt_ret.v = <<"B", " ", "c", " ", "A", "l">>

-----------------------------------------------------------------------------
(* Claims on what generate_round_pgn returns and what the loop does of it. *)

\* The round generate_round_pgn was last called for, the call being over.
LastRound == rounds_log[Len(rounds_log)]

RoundCallOver == rounds_log # <<>> /\ pc \in {"round", "done", "raised"}

\* A round index that is not there or not readable, or an object whose pairings
\* are objects with players named by strings.
WellTypedRound(file) == WellShapedRound(file) \/ file = JsonFile(NullResultRoundDoc)

\* What the claim has generate_round_pgn return for round r.
RoundResultAsStated(r) ==
    IF ~Truthy(InfoDoc) \/ ~Truthy(RoundDocOf(r)) \/ PairingCount(RoundDocOf(r)) = 0
    THEN RetNone
    ELSE Ok(ExpectedBlock(r))

\* The rounds up to n whose result was neither absent nor empty.
RoundsCounted(n) ==
    {r \in 1..n : RoundResultAsStated(r).k = "ok" /\ RoundResultAsStated(r).v # <<>>}

\* C19: generate_round_pgn returns absent when the tournament info or the round
\* index cannot be loaded or the round has no pairing, and text for a round
\* with at least one pairing, empty when no game of the round was built; the
\* loop of generate_tournament_pgn adds nothing and counts nothing for an
\* absent and for an empty result.
C19_RoundResult ==
    (RoundCallOver /\ WellShapedInfo /\ \A r \in RoundIds : WellTypedRound(round_files[r])) =>
        /\ round_pgn = RoundResultAsStated(LastRound)
        /\ success_count = Cardinality(RoundsCounted(LastRound))
        /\ all_pgn_content = BlocksUpTo(LastRound)

\* The same for the rounds whose games raise nothing.
C19_RoundResultNoRaise ==
    (RoundCallOver /\ pc # "raised" /\ WellShapedInfo) =>
        /\ round_pgn = RoundResultAsStated(LastRound)
        /\ success_count = Cardinality(RoundsCounted(LastRound))
        /\ all_pgn_content = BlocksUpTo(LastRound)

-----------------------------------------------------------------------------
(* PGNConverter of utils.py: convert_tournament_to_pgn as a run.  The       *)
(* converter reads data/tournament/info.json, data/rounds/ and data/games/  *)
(* through its ChessDataAnalyzer, whose loaders are the generator's, and    *)
(* writes tournament.pgn; the run uses the variables of the generator's run *)
(* for its own files and locals.                                            *)

S_FEN == <<"F", "E", "N">>
S_StartFen ==
    <<"r", "n", "b", "q", "k", "b", "n", "r", "/", "p", "p", "p", "p", "p", "p", "p", "p", "/", "8", "/", "8", "/", "8", "/", "8", "/", "P", "P">>
    \o <<"P", "P", "P", "P", "P", "P", "/", "R", "N", "B", "Q", "K", "B", "N", "R", " ", "w", " ", "K", "Q", "k", "q", " ", "-", " ", "0", " ", "1">>
K_initialFen == <<"i", "n", "i", "t", "i", "a", "l", "F", "e", "n">>
S_MovesText == <<"1", ".", " ", "e", "4", " ", "e", "5">>

\* A game document whose moves are one string.
TextGameDoc == JObj(<< <<K_moves, JStr(S_MovesText)>> >>)

ConvertInfoFiles ==
    {Absent, JsonFile(ListDoc)} \cup {JsonFile(TournamentDoc(n)) : n \in 0..MaxRounds}

ConvertRoundFiles ==
    {Absent, JsonFile(ListDoc)} \cup {JsonFile(RoundDoc(n)) : n \in 0..MaxGames}

\* GameDoc holds the moves as a list of tokens, the shape the generator reads.
ConvertGameFiles == {Absent, JsonFile(GameDoc), JsonFile(TextGameDoc)}

\* _get_tournament_name
GetTournamentName(file) ==
    LET info == load_tournament_info(file)
    IN  IF ~Truthy(info) THEN Ok(S_UnknownTournament)
        ELSE IF info.t # "dict" THEN Raise
        ELSE Ok(PyStr(Get(info, K_name, JStr(S_UnknownTournament))))

\* _get_tournament_location
GetTournamentLocation(file) ==
    LET info == load_tournament_info(file)
    IN  IF ~Truthy(info) THEN Ok(S_Unknown)
        ELSE IF info.t # "dict" THEN Raise
        ELSE LET location == Get(info, K_location, JStr(S_Unknown))
                 country == Get(info, K_country, JStr(<<>>))
             IN  IF Truthy(country)
                 THEN Ok(PyStr(location) \o <<",", " ">> \o PyStr(country))
                 ELSE Ok(PyStr(location))

\* _get_time_control
GetTimeControl(file) ==
    LET info == load_tournament_info(file)
    IN  IF ~Truthy(info) THEN Ok(S_Unknown)
        ELSE IF info.t # "dict" THEN Raise
        ELSE Ok(PyStr(Get(info, K_timecontrol, JStr(S_Unknown))))

\* Line 219: '\n'.join(pgn_headers) + '\n\n' + moves + ' ' + result + '\n\n';
\* the + of a str and a value that is not a str raises TypeError.
ConcatPgn(pgn_headers, moves, result_) ==
    IF moves.t # "str" \/ result_.t # "str" THEN Raise
    ELSE Ok(Join(pgn_headers, <<NL>>) \o <<NL, NL>> \o moves.s \o <<" ">> \o result_.s
            \o <<NL, NL>>)

\* convert_game_to_pgn, on the states of the game file, the round index and the
\* tournament info; game_number >= 1.
convert_game_to_pgn(round_number, game_number, game_file, round_file, info) ==
    LET game_data == load_game_data(game_file)
        round_data_ == load_round_data(round_file)
    IN
    IF ~Truthy(game_data) \/ ~Truthy(round_data_) THEN RetNone
    ELSE IF round_data_.t # "dict" THEN Raise
    ELSE
    LET pairings == Get(round_data_, K_pairings, JList(<<>>))
    IN
    IF ~HasLen(pairings) THEN Raise
    ELSE IF game_number > PyLen(pairings) THEN RetNone
    ELSE IF pairings.t # "list" THEN Raise
    ELSE
    LET pairing == pairings.l[game_number]
    IN
    IF pairing.t # "dict" THEN Raise
    ELSE
    LET white == Get(pairing, K_white, JObj(<<>>))
        black == Get(pairing, K_black, JObj(<<>>))
        result_ == Get(pairing, K_result, JStr(S_Star))
    IN
    IF GetTournamentName(info).k # "ok" THEN Raise
    ELSE IF white.t # "dict" \/ black.t # "dict" \/ game_data.t # "dict" THEN Raise
    ELSE
    LET pgn_headers == <<
            HeaderLine(S_Event, GetTournamentName(info).v),
            HeaderLine(S_Site, GetTournamentLocation(info).v),
            HeaderLine(S_Date, PyStr(Get(round_data_, K_date, JStr(S_UnknownDate)))),
            HeaderLine(S_Round, IntToStr(round_number)),
            HeaderLine(S_White, PyStr(Get(white, K_lname, JStr(S_Unknown)))),
            HeaderLine(S_Black, PyStr(Get(black, K_lname, JStr(S_Unknown)))),
            HeaderLine(S_Result, PyStr(result_)),
            HeaderLine(S_TimeControl, GetTimeControl(info).v),
            HeaderLine(S_FEN, PyStr(Get(game_data, K_initialFen, JStr(S_StartFen)))) >>
    IN  ConcatPgn(pgn_headers, Get(game_data, K_moves, JStr(<<>>)), result_)

InitConvert ==
    /\ info_file \in ConvertInfoFiles
    /\ round_files = [r \in RoundIds |-> Unread]
    /\ game_files = [id \in GameIds |-> Unread]
    /\ old_output \in OldOutputs
    /\ output_file = old_output
    /\ pc = "convert"
    /\ tournament_info = JNull
    /\ total_rounds = 0
    /\ round_num = 0
    /\ all_pgn_content = <<>>
    /\ success_count = 0
    /\ round_data = JNull
    /\ total_games = 0
    /\ game_num = 0
    /\ pgn_content = <<>>
    /\ game_pgn = RetNone
    /\ round_pgn = RetNone
    /\ fmt_call = NoCall
    /\ fmt_ret = RetNone
    /\ RequestIdle
    /\ result = "none"
    /\ rounds_log = <<>>
    /\ games_log = <<>>
    /\ writes = 0
    /\ write_error = "none"

\* Lines 262-264: except Exception: the run returns False from wherever the
\* exception was raised; the lines after the raise, the open of the output file
\* among them, do not run.
ConvertFailed ==
    /\ pc' = "done"
    /\ result' = "False"
    /\ UNCHANGED <<output_file, writes, write_error>>

\* Lines 234-240: the tournament info is loaded and its rounds counted.
ConvertStart ==
    /\ pc = "convert"
    /\ LET info == load_tournament_info(info_file)
       IN  /\ tournament_info' = info
           /\ IF ~Truthy(info)
              THEN /\ ConvertFailed
                   /\ UNCHANGED <<total_rounds, round_num>>
              ELSE IF info.t # "dict" \/ ~HasLen(Get(info, K_rounds, JList(<<>>)))
              THEN /\ ConvertFailed
                   /\ UNCHANGED <<total_rounds, round_num>>
              ELSE /\ total_rounds' = PyLen(Get(info, K_rounds, JList(<<>>)))
                   /\ round_num' = 1
                   /\ pc' = "convert_round"
                   /\ UNCHANGED <<output_file, result, writes, write_error>>
    /\ pgn_content' = <<>>
    /\ UNCHANGED <<info_file, round_files, game_files, old_output, all_pgn_content,
                   success_count, round_data, total_games, game_num, game_pgn,
                   round_pgn, rounds_log, games_log, fmt_call, fmt_ret, request_vars>>

\* Lines 242-247: the round index is loaded; a round that is not loaded is
\* passed over, the pairings of a loaded one are counted.
ConvertRound ==
    /\ pc = "convert_round"
    /\ round_num <= total_rounds
    /\ \E file \in ConvertRoundFiles :
        LET data == load_round_data(file)
        IN  /\ round_files' = [round_files EXCEPT ![round_num] = file]
            /\ rounds_log' = Append(rounds_log, round_num)
            /\ round_data' = data
            /\ IF ~Truthy(data)
               THEN /\ round_num' = round_num + 1
                    /\ pc' = "convert_round"
                    /\ UNCHANGED <<total_games, game_num, output_file, result, writes,
                                   write_error>>
               ELSE IF data.t # "dict" \/ ~HasLen(Get(data, K_pairings, JList(<<>>)))
               THEN /\ ConvertFailed
                    /\ UNCHANGED <<round_num, total_games, game_num>>
               ELSE /\ total_games' = PyLen(Get(data, K_pairings, JList(<<>>)))
                    /\ game_num' = 1
                    /\ pc' = "convert_game"
                    /\ UNCHANGED <<round_num, output_file, result, writes, write_error>>
    /\ UNCHANGED <<info_file, game_files, old_output, tournament_info, total_rounds,
                   all_pgn_content, success_count, pgn_content, game_pgn, round_pgn,
                   games_log, fmt_call, fmt_ret, request_vars>>

\* Lines 249-253: one turn of the loop over the games of the round.
ConvertGame ==
    /\ pc = "convert_game"
    /\ game_num <= total_games
    /\ \E file \in ConvertGameFiles :
        /\ game_files' = [game_files EXCEPT ![<<round_num, game_num>>] = file]
        /\ games_log' = Append(games_log, <<round_num, game_num>>)
        /\ game_pgn' = convert_game_to_pgn(round_num, game_num, file,
                                           round_files[round_num], info_file)
        /\ IF game_pgn'.k = "raise"
           THEN /\ ConvertFailed
                /\ UNCHANGED <<game_num, pgn_content>>
           ELSE /\ pgn_content' = IF game_pgn'.k = "ok" /\ game_pgn'.v # <<>>
                                  THEN Append(pgn_content, game_pgn'.v)
                                  ELSE pgn_content
                /\ game_num' = game_num + 1
                /\ pc' = "convert_game"
                /\ UNCHANGED <<output_file, result, writes, write_error>>
    /\ UNCHANGED <<info_file, round_files, old_output, tournament_info, total_rounds,
                   round_num, all_pgn_content, success_count, round_data, total_games,
                   round_pgn, rounds_log, fmt_call, fmt_ret, request_vars>>

\* Line 249: range(1, total_games + 1) is exhausted, the next round follows.
ConvertRoundEnd ==
    /\ pc = "convert_game"
    /\ game_num > total_games
    /\ round_num' = round_num + 1
    /\ pc' = "convert_round"
    /\ UNCHANGED <<info_file, round_files, game_files, old_output, output_file,
                   tournament_info, total_rounds, all_pgn_content, success_count,
                   round_data, total_games, game_num, pgn_content, game_pgn, round_pgn,
                   result, rounds_log, games_log, writes, write_error, fmt_call,
                   fmt_ret, request_vars>>

\* Lines 255-260: after the last round the records are written, whether there
\* are any or not; an exception of open or of f.write is caught like the others.
ConvertEnd ==
    /\ pc = "convert_round"
    /\ round_num > total_rounds
    /\ pc' = "done"
    /\ \/ /\ output_file' = TextFile(Join(pgn_content, <<NL>>))
          /\ writes' = writes + 1
          /\ write_error' = "none"
          /\ result' = "True"
       \/ /\ UNCHANGED <<output_file, writes>>
          /\ write_error' = "open"
          /\ result' = "False"
       \/ /\ \E half \in {0, 1} :
                 output_file' = TextFile(SubSeq(Join(pgn_content, <<NL>>), 1,
                                     half * (Len(Join(pgn_content, <<NL>>)) \div 2)))
          /\ writes' = writes + 1
          /\ write_error' = "write"
          /\ result' = "False"
    /\ UNCHANGED <<info_file, round_files, game_files, old_output, tournament_info,
                   total_rounds, round_num, all_pgn_content, success_count,
                   round_data, total_games, game_num, pgn_content, game_pgn,
                   round_pgn, rounds_log, games_log, fmt_call, fmt_ret, request_vars>>

NextConvert ==
    \/ ConvertStart
    \/ ConvertRound
    \/ ConvertGame
    \/ ConvertRoundEnd
    \/ ConvertEnd

SpecConvert == InitConvert /\ [][NextConvert]_vars

-----------------------------------------------------------------------------
(* Claim on the converter.                                                  *)

\* The game of pairing g of round r as the converter converts it.
ConvertedOf(r, g) ==
    convert_game_to_pgn(r, g, game_files[<<r, g>>], round_files[r], info_file)

\* The games 1..n of round r that can be converted, in game order.
RECURSIVE ConvertedGames(_, _)
ConvertedGames(r, n) ==
    IF n = 0 THEN <<>>
    ELSE IF ConvertedOf(r, n).k = "ok"
         THEN Append(ConvertedGames(r, n - 1), ConvertedOf(r, n).v)
         ELSE ConvertedGames(r, n - 1)

\* The games of the rounds 1..n that can be converted, in round order.
RECURSIVE ConvertedUpTo(_)
ConvertedUpTo(n) ==
    IF n = 0 THEN <<>>
    ELSE ConvertedUpTo(n - 1) \o ConvertedGames(n, PairingCount(RoundDocOf(n)))

\* The documents have the shape the generator reads: an info object, round
\* indexes that are objects or are not there.
ConvertibleInputs ==
    /\ WellShapedInfo
    /\ \A r \in RoundIds : WellShapedRound(round_files[r])

\* C20: convert_tournament_to_pgn is best-effort per game: a game whose
\* conversion fails, such as one whose moves are a sequence of tokens, is
\* skipped, the remaining games are still converted, and the output file is
\* written with the games that were converted.
C20_BestEffortPerGame ==
    (pc = "done" /\ ConvertibleInputs /\ write_error = "none") =>
        /\ games_log = GamesUpTo(DeclaredRounds)
        /\ result = "True"
        /\ output_file = TextFile(Join(ConvertedUpTo(DeclaredRounds), <<NL>>))

\* The same for the runs none of whose games raises.
C20_BestEffortNoRaise ==
    (pc = "done" /\ ConvertibleInputs /\ write_error = "none"
     /\ \A i \in 1..Len(games_log) :
            ConvertedOf(games_log[i][1], games_log[i][2]).k # "raise") =>
        /\ games_log = GamesUpTo(DeclaredRounds)
        /\ result = "True"
        /\ output_file = TextFile(Join(ConvertedUpTo(DeclaredRounds), <<NL>>))

-----------------------------------------------------------------------------
(* LiveChessCloudScraper._make_request of main.py: one step per attempt.   *)

\* The largest retry count a call is given.
MaxRetries == 3

\* self.max_retries = 3
max_retries == 3

\* self.request_delay = 1.0, in seconds
request_delay == 1

\* The factor of wait_time = (attempt + 1) * 2
RetryDelay == 2

\* The retries argument: None, or a count.
RetriesArgs == {JNull} \cup {JInt(n) : n \in 0..MaxRetries}

\* Lines 95-96: if retries is None: retries = self.max_retries
ResolveRetries(arg) == IF arg = JNull THEN max_retries ELSE arg.n

\* What response.json() raises on a body that is no JSON depends on the
\* requests library installed: up to 2.26 the decoder's own
\* json.JSONDecodeError, from 2.27 on requests.exceptions.JSONDecodeError,
\* which is a json.JSONDecodeError and a RequestException at once.
JsonErrorClasses == {"json.JSONDecodeError", "requests.exceptions.JSONDecodeError"}

\* What an attempt can meet: session.get raises ConnectionError or Timeout,
\* raise_for_status raises HTTPError, the body is empty, the body is no JSON,
\* something else is raised, or the body parses.
RequestErrors == {"ConnectionError", "Timeout", "HTTPError"}

\* The documents a request that succeeds may return.
ResponseDocs == {JObj(<<>>), TournamentDoc(1), RoundDoc(1), GameDoc}

\* The class of the exception an attempt raises.
ExceptionOf(met, json_class) ==
    IF met \in RequestErrors THEN "RequestException"
    ELSE IF met = "invalid_json" THEN json_class
    ELSE "Exception"

\* isinstance(e, requests.exceptions.RequestException)
IsRequestException(exception) ==
    exception \in {"RequestException", "requests.exceptions.JSONDecodeError"}

\* isinstance(e, json.JSONDecodeError)
IsJSONDecodeError(exception) ==
    exception \in {"json.JSONDecodeError", "requests.exceptions.JSONDecodeError"}

\* The except clause that catches the exception: the first one that matches,
\* in the order of lines 117, 127 and 130.
HandlerOf(exception) ==
    IF IsRequestException(exception) THEN "RequestException"
    ELSE IF IsJSONDecodeError(exception) THEN "JSONDecodeError"
    ELSE "Exception"

\* Line 120: wait_time = (attempt + 1) * 2
WaitTime(attempt_) == (attempt_ + 1) * RetryDelay

\* One attempt in the history: what it met and the seconds slept after it.
Attempted(met, slept) == [met |-> met, slept |-> slept]

InitRequest ==
    /\ json_error_class \in JsonErrorClasses
    /\ \E arg \in RetriesArgs : retries = ResolveRetries(arg)
    /\ attempt = 0
    /\ attempts_log = <<>>
    /\ request_ret = RetNone
    /\ pc = "request"
    /\ fmt_call = NoCall
    /\ fmt_ret = RetNone
    /\ info_file = Unread
    /\ round_files = [r \in RoundIds |-> Unread]
    /\ game_files = [id \in GameIds |-> Unread]
    /\ old_output = NoFile
    /\ output_file = NoFile
    /\ tournament_info = JNull
    /\ total_rounds = 0
    /\ round_num = 0
    /\ all_pgn_content = <<>>
    /\ success_count = 0
    /\ round_data = JNull
    /\ total_games = 0
    /\ game_num = 0
    /\ pgn_content = <<>>
    /\ game_pgn = RetNone
    /\ round_pgn = RetNone
    /\ result = "none"
    /\ rounds_log = <<>>
    /\ games_log = <<>>
    /\ writes = 0
    /\ write_error = "none"

\* Line 98: the loop over range(retries + 1) has an attempt left.
InLoop == pc = "request" /\ attempt <= retries

\* What _make_request leaves alone: everything but its own locals.
RequestFrame ==
    UNCHANGED <<info_file, round_files, game_files, old_output, output_file,
                tournament_info, total_rounds, round_num, all_pgn_content,
                success_count, round_data, total_games, game_num, pgn_content,
                game_pgn, round_pgn, result, rounds_log, games_log, writes,
                write_error, fmt_call, fmt_ret, json_error_class, retries>>

\* The function returns: the loop is left.
RequestReturn(met, slept, outcome) ==
    /\ attempts_log' = Append(attempts_log, Attempted(met, slept))
    /\ request_ret' = outcome
    /\ pc' = "returned"
    /\ UNCHANGED attempt
    /\ RequestFrame

\* Lines 102-115: the response arrives and parses; the function sleeps
\* request_delay and returns the data.
RequestSucceeds ==
    /\ InLoop
    /\ \E data \in ResponseDocs : RequestReturn("ok", request_delay, Ok(data))

\* Lines 106-108: if not response.content: return None
RequestEmpty ==
    /\ InLoop
    /\ RequestReturn("empty", 0, RetNone)

\* Lines 117-125: except requests.exceptions.RequestException: on an attempt
\* that is not the last the function sleeps wait_time and the loop goes on, on
\* the last it returns None.
RequestFails ==
    /\ InLoop
    /\ \E met \in RequestErrors \cup {"invalid_json"} :
        /\ HandlerOf(ExceptionOf(met, json_error_class)) = "RequestException"
        /\ IF attempt < retries
           THEN /\ attempts_log' = Append(attempts_log, Attempted(met, WaitTime(attempt)))
                /\ attempt' = attempt + 1
                /\ UNCHANGED <<pc, request_ret>>
                /\ RequestFrame
           ELSE RequestReturn(met, 0, RetNone)

\* Lines 127-129: except json.JSONDecodeError: return None
RequestJsonError ==
    /\ InLoop
    /\ HandlerOf(ExceptionOf("invalid_json", json_error_class)) = "JSONDecodeError"
    /\ RequestReturn("invalid_json", 0, RetNone)

\* Lines 130-132: except Exception: return None
RequestUnknownError ==
    /\ InLoop
    /\ HandlerOf(ExceptionOf("other", json_error_class)) = "Exception"
    /\ RequestReturn("other", 0, RetNone)

NextRequest ==
    \/ RequestSucceeds
    \/ RequestEmpty
    \/ RequestFails
    \/ RequestJsonError
    \/ RequestUnknownError

SpecRequest == InitRequest /\ [][NextRequest]_vars

-----------------------------------------------------------------------------
(* Claim on _make_request.                                                  *)

RequestCalled == pc \in {"request", "returned"} /\ json_error_class # "none"

LastAttempt == attempts_log[Len(attempts_log)]

\* What the claim has the function do, given which attempts count as a
\* request exception.
RetriesAsStated(Retried) ==
    RequestCalled =>
        /\ Len(attempts_log) <= retries + 1
        /\ pc = "request" => attempt = Len(attempts_log) /\ attempt <= retries
        /\ \A k \in 1..Len(attempts_log) :
               (k < Len(attempts_log) \/ pc = "request") =>
                   /\ attempts_log[k].met \in Retried
                   /\ k < retries + 1
                   /\ attempts_log[k].slept = 2 * k
        /\ pc = "returned" =>
               /\ attempts_log # <<>>
               /\ IF LastAttempt.met = "ok"
                  THEN request_ret.k = "ok" /\ request_ret.v \in ResponseDocs
                  ELSE request_ret = RetNone
               /\ LastAttempt.met \in Retried => Len(attempts_log) = retries + 1

\* C21: _make_request makes at most retries+1 attempts and ends; a further
\* attempt follows only a request exception on an attempt that is not the
\* last, after a wait of 2*k seconds for the k-th attempt; the data of the
\* first attempt that succeeds is returned; an empty response, a JSON parse
\* error and any other error return absent with no further attempt, and so
\* does the failure of the last attempt.
C21_BoundedRetries == RetriesAsStated(RequestErrors)

\* The same with a body that is no JSON counted among the request exceptions
\* when the library raises it as one.
C21_BoundedRetriesByClass ==
    RetriesAsStated(
        IF IsRequestException(json_error_class)
        THEN RequestErrors \cup {"invalid_json"}
        ELSE RequestErrors)
====
